---------------------------- MODULE Spec2Model ----------------------------
(***************************************************************************)
(* A model of the westbetpro opportunity engine (src/backend/engine.py)    *)
(* and of the result tracker (src/backend/track_results.py).               *)
(*                                                                         *)
(* Conventions.                                                            *)
(*  - Decimal odds carry two decimals in the rule catalog and in the       *)
(*    stored snapshots; they are held as integers in hundredths (2.33 is   *)
(*    233), and so is the matching tolerance.                              *)
(*  - Text is a sequence of one-character strings.  The module is ASCII    *)
(*    only, so the Turkish capitals are written "I+" (I with dot above),   *)
(*    "U:" (U with diaeresis), and their small forms "i" and "u:".         *)
(*  - A Python call either returns a value or raises: the result of an     *)
(*    operation that can raise is Return(v) or Raise.                      *)
(*  - A dict is a function whose DOMAIN is its set of keys.                *)
(***************************************************************************)
EXTENDS Integers, Sequences, FiniteSets, TLC

VARIABLES
    min_confidence,   \* SupabaseOpportunityEngine.min_confidence
    tolerance,        \* SupabaseOpportunityEngine.tolerance (hundredths)
    golden_rules,     \* SupabaseOpportunityEngine.golden_rules
    call,             \* the last call of a pure method: [op, args, ret]
    now,              \* datetime.utcnow(), in half days
    feed,             \* the external score feed, per fixture
    predictions,      \* the rows of the table 'predictions'
    runs,             \* the rows of the table 'runs': run id -> status
    eng,              \* per engine instance: fields and position in run()
    trk,              \* the tracker's position in track_results()
    hist,             \* history of the execution, read by the properties only
    golden_rules_table,     \* the rows of the table 'golden_rules'
    matches_table,          \* the rows of the table 'matches'
    system_suggestions,     \* the rows of the table 'system_suggestions'
    candidate_rules,        \* the rows of the table 'candidate_rules'
    sandbox_test_runs,      \* the rows of the table 'sandbox_test_runs'
    sandbox_match_results,  \* the rows of the table 'sandbox_match_results'
    intelligence_outputs,   \* the rows of the table 'intelligence_outputs', by output_id
    system_blocked_events,  \* the rows of the table 'system_blocked_events'
    adm,                    \* per admin: position in update_output_status()
    system_health_log,      \* the rows of the table 'system_health_log'
    execution_errors_log    \* the rows of the table 'execution_errors_log'

\* the tables that the validation layer reads and writes
validationVars == << golden_rules_table, matches_table, system_suggestions,
                     candidate_rules, sandbox_test_runs, sandbox_match_results >>

\* the tables of the intelligence outputs and the admins acting on them
outputVars == << intelligence_outputs, system_blocked_events, adm >>

\* the tables that the audit logger writes
auditVars == << system_health_log, execution_errors_log >>

vars == << min_confidence, tolerance, golden_rules, call,
           now, feed, predictions, runs, eng, trk, hist, validationVars, outputVars,
           auditVars >>

engineFields == << min_confidence, tolerance, golden_rules >>
storeVars    == << now, feed, predictions, runs, eng, trk, hist, validationVars, outputVars,
                  auditVars >>

----------------------------------------------------------------------------
(* Values *)

Return(v) == [exc |-> FALSE, val |-> v]
Raise     == [exc |-> TRUE,  val |-> FALSE]

\* A JSON value of an odds snapshot: a number, null, or text that float() rejects.
Num(v)  == [t |-> "num",  v |-> v]
Null    == [t |-> "null", v |-> 0]
BadText == [t |-> "str",  v |-> 0]

\* no call made yet; each behaviour makes one call, on inputs drawn by the action
NoCall == [op |-> "none", args |-> << >>, ret |-> << >>]

Abs(x) == IF x < 0 THEN -x ELSE x

Min(a, b) == IF a <= b THEN a ELSE b

\* dict.get(key): the value, None for an absent key (and for a JSON null)
DictGet(d, key) == IF key \in DOMAIN d THEN d[key] ELSE Null

\* the dict d without the key k
DictWithout(d, k) == [x \in DOMAIN d \ {k} |-> d[x]]

----------------------------------------------------------------------------
(* Odds matching: engine.py, check_odds_match and _convert_odds_key *)

\* the fixed label -> key table of _convert_odds_key
OddsKeyMapping ==
    [ l \in {"4-5", "2,5 U:", "3,5 U:", "3,5 A", "VAR", "1", "0", "2",
             "I+Y 0.5", "I+Y 1.5", "MS 0.5", "MS 1.5", "MS 2.5", "MS 3.5"} |->
        CASE l = "4-5"     -> "oran_45"
          [] l = "2,5 U:"  -> "oran_25_ust"
          [] l = "3,5 U:"  -> "oran_35_ust"
          [] l = "3,5 A"   -> "oran_35_alt"
          [] l = "VAR"     -> "oran_var"
          [] l = "1"       -> "oran_1"
          [] l = "0"       -> "oran_0"
          [] l = "2"       -> "oran_2"
          [] l = "I+Y 0.5" -> "iy_05"
          [] l = "I+Y 1.5" -> "iy_15"
          [] l = "MS 0.5"  -> "ms_05"
          [] l = "MS 1.5"  -> "ms_15"
          [] l = "MS 2.5"  -> "ms_25"
          [] l = "MS 3.5"  -> "ms_35" ]

\* rule_key.lower().replace(" ", "_") on the labels of the catalog that the
\* table does not hold
SlugOf(rule_key) ==
    CASE rule_key = "2,5 A" -> "2,5_a"
      [] rule_key = "2-3"   -> "2-3"
      [] OTHER              -> rule_key

convert_odds_key(rule_key) ==
    IF rule_key \in DOMAIN OddsKeyMapping
    THEN OddsKeyMapping[rule_key]
    ELSE SlugOf(rule_key)

\* a variant of the tolerance check with a strict comparison, to compare
\* against
WithinToleranceStrict(diff) == diff < tolerance

\* is_match = diff <= self.tolerance
WithinTolerance(diff) == diff <= tolerance

\* what the loop of check_odds_match does with a pair whose key is absent:
\* skipped (continue) for an exclude signature, a mismatch otherwise
AbsentKeyIsSkipped(is_exclude) == is_exclude

\* the loop of check_odds_match from pair i on; rule_odds is the dict as the
\* sequence of its (label, val) items in iteration order
RECURSIVE CheckOddsFrom(_, _, _, _)
CheckOddsFrom(match_odds, rule_odds, is_exclude, i) ==
    IF i > Len(rule_odds) THEN Return(TRUE)
    ELSE
      LET db_key     == convert_odds_key(rule_odds[i].label)
          actual_val == DictGet(match_odds, db_key)
      IN  IF actual_val.t = "null"
          THEN IF AbsentKeyIsSkipped(is_exclude)
               THEN CheckOddsFrom(match_odds, rule_odds, is_exclude, i + 1)
               ELSE Return(FALSE)
          ELSE IF actual_val.t = "str"
          THEN Raise   \* float(actual_val): ValueError
          ELSE
            LET diff     == Abs(actual_val.v - rule_odds[i].val)
                is_match == WithinTolerance(diff)
            IN  IF is_exclude
                THEN IF is_match
                     THEN Return(FALSE)
                     ELSE CheckOddsFrom(match_odds, rule_odds, is_exclude, i + 1)
                ELSE IF ~is_match
                     THEN Return(FALSE)
                     ELSE CheckOddsFrom(match_odds, rule_odds, is_exclude, i + 1)

check_odds_match(match_odds, rule_odds, is_exclude) ==
    IF DOMAIN match_odds = {}     \* if not match_odds
    THEN Return(FALSE)
    ELSE CheckOddsFrom(match_odds, rule_odds, is_exclude, 1)

\* match.get('opening_odds', {})
OpeningOdds(match) ==
    IF "opening_odds" \in DOMAIN match THEN match.opening_odds ELSE << >>

\* the exclude check of match_rule_to_match; the variant first, which
\* leaves the check out, to compare against
ExcludeCheckIgnored(odds, rule) == Return(TRUE)

ExcludeCheck(odds, rule) ==
    IF rule.exclude_odds # << >>
    THEN check_odds_match(odds, rule.exclude_odds, TRUE)
    ELSE Return(TRUE)

match_rule_to_match(match, rule) ==
    LET odds == OpeningOdds(match)
        p    == check_odds_match(odds, rule.primary_odds, FALSE)
    IN  IF p.exc THEN Raise
        ELSE IF ~p.val THEN Return(FALSE)
        ELSE
          LET s == IF rule.secondary_odds # << >>
                   THEN check_odds_match(odds, rule.secondary_odds, FALSE)
                   ELSE Return(TRUE)
          IN  IF s.exc THEN Raise
              ELSE IF ~s.val THEN Return(FALSE)
              ELSE
                LET x == ExcludeCheck(odds, rule)
                IN  IF x.exc THEN Raise
                    ELSE IF ~x.val THEN Return(FALSE)
                    ELSE Return(TRUE)

----------------------------------------------------------------------------
(* Confidence: engine.py, calculate_confidence *)

\* importance_bonus.get(rule.importance, 0)
ImportanceBonus(importance) ==
    CASE importance = "cok_onemli" -> 3
      [] importance = "onemli"     -> 2
      [] importance = "ozel"       -> 1
      [] importance = "normal"     -> 0
      [] OTHER                     -> 0

\* few predictions = higher confidence
RarityBonus(prediction_count) ==
    IF prediction_count <= 2 THEN 2
    ELSE IF prediction_count <= 4 THEN 1
    ELSE 0

\* primary prediction bonus
PrimaryBonus(rule, prediction) ==
    IF rule.predictions # << >> /\ prediction = rule.predictions[1] THEN 1 ELSE 0

\* a variant of the clamp that returns the sum as it is, to compare against
Unclamped(base) == base

\* return min(100, base)
Clamp(base) == Min(100, base)

calculate_confidence(rule, prediction) ==
    Clamp(rule.confidence_base
          + ImportanceBonus(rule.importance)
          + RarityBonus(Len(rule.predictions))
          + PrimaryBonus(rule, prediction))

----------------------------------------------------------------------------
(* Processing: engine.py, process_matches *)

\* the index of the first entry of s, from i on, that x goes before in a
\* descending order that keeps equal keys in their order: the first entry
\* with a smaller confidence
RECURSIVE PlaceFrom(_, _, _)
PlaceFrom(s, x, i) ==
    IF i > Len(s) THEN i
    ELSE IF s[i].confidence < x.confidence THEN i
    ELSE PlaceFrom(s, x, i + 1)

InsertAt(s, x, i) == SubSeq(s, 1, i - 1) \o << x >> \o SubSeq(s, i, Len(s))

\* list.sort(key=confidence, reverse=True): a stable sort
RECURSIVE SortFrom(_, _, _)
SortFrom(sorted, s, i) ==
    IF i > Len(s) THEN sorted
    ELSE SortFrom(InsertAt(sorted, s[i], PlaceFrom(sorted, s[i], 1)), s, i + 1)

\* a variant of the sort that leaves the list in collection order, to
\* compare against
SortSkipped(all_predictions) == all_predictions

SortByConfidence(all_predictions) == SortFrom(<< >>, all_predictions, 1)

\* all_predictions[1:]
Alternatives(all_predictions) == SubSeq(all_predictions, 2, Len(all_predictions))

\* the entries one matched rule contributes, in the order of its predictions
RulePredictions(rule) ==
    [ k \in 1..Len(rule.predictions) |->
        [ bet        |-> rule.predictions[k],
          confidence |-> calculate_confidence(rule, rule.predictions[k]),
          rule_id    |-> rule.id ] ]

RECURSIVE CollectFrom(_, _)
CollectFrom(matched_rules, i) ==
    IF i > Len(matched_rules) THEN << >>
    ELSE RulePredictions(matched_rules[i]) \o CollectFrom(matched_rules, i + 1)

\* the keys the opportunity dict reads with match[...]
RequiredMatchKeys == {"id", "home_team", "away_team", "league", "match_date"}

\* a variant of the confidence filter with a strict comparison, to compare
\* against
AboveMinConfidence(confidence) == confidence > min_confidence

\* if best["confidence"] >= self.min_confidence
MeetsMinConfidence(confidence) == confidence >= min_confidence

\* the body of the loop of process_matches for one match: the opportunities
\* it appends (none or one), or the exception it raises
ProcessOne(match) ==
    IF \E i \in 1..Len(golden_rules) :
           match_rule_to_match(match, golden_rules[i]).exc
    THEN Raise
    ELSE
      LET matched_rules ==
              SelectSeq(golden_rules,
                        LAMBDA rule : match_rule_to_match(match, rule).val)
      IN  IF matched_rules = << >> THEN Return(<< >>)
          ELSE
            LET all_predictions == SortByConfidence(CollectFrom(matched_rules, 1))
            IN  IF all_predictions = << >> THEN Raise   \* all_predictions[0]
                ELSE
                  LET best == all_predictions[1]
                  IN  IF MeetsMinConfidence(best.confidence)
                      THEN IF ~(RequiredMatchKeys \subseteq DOMAIN match)
                           THEN Raise   \* match["..."]: KeyError
                           ELSE Return(<<
                             [ match_id   |-> match.id,
                               home_team  |-> match.home_team,
                               away_team  |-> match.away_team,
                               league     |-> match.league,
                               match_date |-> match.match_date,
                               match_time |-> DictGet(match, "match_time"),
                               prediction |-> best.bet,
                               confidence |-> best.confidence,
                               alternative_predictions |->
                                   Alternatives(all_predictions),
                               matched_rules |->
                                   [ k \in 1..Len(matched_rules) |->
                                       matched_rules[k].id ],
                               note |-> Len(all_predictions) ] >>)
                      ELSE Return(<< >>)

\* the loop over the batch from match i on, with the opportunities so far;
\* nothing in it catches an exception
RECURSIVE ProcessFrom(_, _, _)
ProcessFrom(matches, i, opportunities) ==
    IF i > Len(matches) THEN Return(opportunities)
    ELSE LET r == ProcessOne(matches[i])
         IN  IF r.exc THEN Raise
             ELSE ProcessFrom(matches, i + 1, opportunities \o r.val)

process_matches(matches) == ProcessFrom(matches, 1, << >>)

----------------------------------------------------------------------------
(* The rule catalog: golden_rules.py, GOLDEN_RULES *)

\* prediction texts of the catalog
\* "I+Y 0.5 U:ST"
IY_05_UST == << "I+", "Y", " ", "0", ".", "5", " ", "U:", "S", "T" >>

\* "I+Y 1.5 U:ST"
IY_15_UST == << "I+", "Y", " ", "1", ".", "5", " ", "U:", "S", "T" >>

\* "I+Y EV 0.5 U:ST"
IY_EV_05_UST == << "I+", "Y", " ", "E", "V", " ", "0", ".", "5", " ", "U:", "S", "T" >>

\* "MS 1.5 U:ST"
MS_15_UST == << "M", "S", " ", "1", ".", "5", " ", "U:", "S", "T" >>

\* "MS 2.5 U:ST"
MS_25_UST == << "M", "S", " ", "2", ".", "5", " ", "U:", "S", "T" >>

\* "MS 3.5 U:ST"
MS_35_UST == << "M", "S", " ", "3", ".", "5", " ", "U:", "S", "T" >>

\* "MS EV 0.5 U:ST"
MS_EV_05_UST == << "M", "S", " ", "E", "V", " ", "0", ".", "5", " ", "U:", "S", "T" >>

\* "EV MS 0.5 U:ST"
EV_MS_05_UST == << "E", "V", " ", "M", "S", " ", "0", ".", "5", " ", "U:", "S", "T" >>

\* "KG VAR"
KG_VAR == << "K", "G", " ", "V", "A", "R" >>

\* GoldenRule(...): secondary_odds and exclude_odds None is the empty
\* signature, which the code treats alike (if rule.secondary_odds)
GoldenRule(id, primary_odds, secondary_odds, exclude_odds, preds, confidence_base, importance) ==
    [ id              |-> id,
      primary_odds    |-> primary_odds,
      secondary_odds  |-> secondary_odds,
      exclude_odds    |-> exclude_odds,
      predictions     |-> preds,
      confidence_base |-> confidence_base,
      importance      |-> importance ]

\* one pair of an odds signature
Pair(label, val) == [label |-> label, val |-> val]

\* id=30, "4-5 gol 2.33"
Rule30 == GoldenRule(30, << Pair("4-5", 233) >>, << >>, << >>,
                     << IY_05_UST, IY_15_UST, IY_EV_05_UST >>, 90, "onemli")

\* id=2, "4-5 gol 2.40"
Rule2 == GoldenRule(2, << Pair("4-5", 240) >>, << >>, << >>,
                    << MS_15_UST, MS_25_UST, EV_MS_05_UST >>, 89, "normal")

\* id=6, "4-5 gol 2.60"
Rule6 == GoldenRule(6, << Pair("4-5", 260) >>, << >>, << >>,
                    << IY_05_UST, MS_EV_05_UST, MS_15_UST >>, 88, "normal")

\* id=61, "4-5 gol 2.60 + 2.5 alt 2.83"
Rule61 == GoldenRule(61, << Pair("4-5", 260) >>, << Pair("2,5 A", 283) >>, << >>,
                     << IY_05_UST, IY_15_UST, IY_EV_05_UST,
                        MS_15_UST, MS_25_UST, MS_35_UST >>, 90, "normal")

\* id=9, "4-5 gol 3.15 (KG VAR 1.50 HARIC)"
Rule9 == GoldenRule(9, << Pair("4-5", 315) >>, << >>, << Pair("VAR", 150) >>,
                    << IY_05_UST, MS_25_UST, MS_35_UST >>, 88, "onemli")

\* id=46, "4-5 gol 4.22"
Rule46 == GoldenRule(46, << Pair("4-5", 422) >>, << >>, << >>,
                     << KG_VAR >>, 84, "normal")

\* the rules of the catalog the model carries, in catalog order
Catalog == << Rule30, Rule2, Rule6, Rule61, Rule9, Rule46 >>

\* __init__: min_confidence: int = 85
DefaultMinConfidence == 85

\* __init__: tolerance: float = 0.000
DefaultTolerance == 0

\* a row of the table 'matches'
Match(id, match_date, match_time, opening_odds) ==
    [ id           |-> id,
      home_team    |-> id,
      away_team    |-> id,
      league       |-> "league",
      match_date   |-> match_date,
      match_time   |-> match_time,
      opening_odds |-> opening_odds ]

----------------------------------------------------------------------------
(* Grading: track_results.py, ResultTracker.check_prediction_result *)

\* str.upper() on one character
UpperChar(c) ==
    CASE c = "i"  -> "I"
      [] c = "u:" -> "U:"
      [] c = "y"  -> "Y"
      [] c = "m"  -> "M"
      [] c = "s"  -> "S"
      [] c = "k"  -> "K"
      [] c = "g"  -> "G"
      [] c = "t"  -> "T"
      [] OTHER    -> c

Upper(text) == [k \in 1..Len(text) |-> UpperChar(text[k])]

RECURSIVE LStrip(_)
LStrip(text) ==
    IF text # << >> /\ Head(text) = " " THEN LStrip(Tail(text)) ELSE text

RECURSIVE RStrip(_)
RStrip(text) ==
    IF text # << >> /\ text[Len(text)] = " "
    THEN RStrip(SubSeq(text, 1, Len(text) - 1))
    ELSE text

\* str.strip()
Strip(text) == RStrip(LStrip(text))

\* sub in text
Contains(text, sub) ==
    \E k \in 0..(Len(text) - Len(sub)) : SubSeq(text, k + 1, k + Len(sub)) = sub

\* the match data get_match_by_teams_and_date returns for a finished match
MatchData(ft_home, ft_away, ht_home, ht_away) ==
    [ present       |-> TRUE,
      fulltime_home |-> ft_home,
      fulltime_away |-> ft_away,
      halftime_home |-> ht_home,
      halftime_away |-> ht_away ]

\* get_match_by_teams_and_date returned None
NoMatchData == [present |-> FALSE] @@ MatchData(Null, Null, Null, Null)

\* int(x) if x is not None else 0
IntOrZero(x) == IF x.t = "null" THEN 0 ELSE x.v

check_prediction_result(prediction, match_data) ==
    IF ~match_data.present THEN "pending"
    ELSE IF match_data.fulltime_home.t = "null" \/ match_data.fulltime_away.t = "null"
    THEN "pending"
    ELSE IF \E x \in { match_data.fulltime_home, match_data.fulltime_away,
                       match_data.halftime_home, match_data.halftime_away } :
                x.t = "str"
    THEN "pending"   \* except (ValueError, TypeError)
    ELSE
      LET pred        == Strip(Upper(prediction))
          ft_home     == match_data.fulltime_home.v
          ft_away     == match_data.fulltime_away.v
          ht_home     == IntOrZero(match_data.halftime_home)
          ht_away     == IntOrZero(match_data.halftime_away)
          total_goals == ft_home + ft_away
          ht_total    == ht_home + ht_away
          Has(sub)    == Contains(pred, sub)
          Ust(n)      == \/ Has(<< n, ".", "5", " ", "U", "S", "T" >>)
                         \/ Has(<< n, ".", "5", " ", "U:", "S", "T" >>)
          Alt(n)      == Has(<< n, ".", "5", " ", "A", "L", "T" >>)
          WonIf(b)    == IF b THEN "won" ELSE "lost"
          both_scored == ft_home > 0 /\ ft_away > 0
          \* the branch 'Karsilikli Gol' and the default
          BothTeams   ==
              IF Has(<< "K", "G" >>)
                 \/ Has(<< "K", "A", "R", "S", "I", "L", "I", "K", "L", "I" >>)
              THEN IF Has(<< "V", "A", "R" >>) THEN WonIf(both_scored)
                   ELSE IF Has(<< "Y", "O", "K" >>) THEN WonIf(~both_scored)
                   ELSE "pending"
              ELSE "pending"
          \* the branch 'Mac Geneli' and what follows it
          FullTime    ==
              IF Has(<< "M", "S" >>) \/ Has(<< "M", "A", "C" >>)
              THEN IF Ust("0") THEN WonIf(total_goals >= 1)
                   ELSE IF Ust("1") THEN WonIf(total_goals >= 2)
                   ELSE IF Ust("2") THEN WonIf(total_goals >= 3)
                   ELSE IF Ust("3") THEN WonIf(total_goals >= 4)
                   ELSE IF Ust("4") THEN WonIf(total_goals >= 5)
                   ELSE IF Ust("5") THEN WonIf(total_goals >= 6)
                   ELSE IF Alt("2") THEN WonIf(total_goals < 3)
                   ELSE IF Alt("3") THEN WonIf(total_goals < 4)
                   ELSE BothTeams
              ELSE BothTeams
      IN  \* the branch 'Ilk Yari' and what follows it
          IF Has(<< "I", "Y" >>) \/ Has(<< "I", "L", "K", "Y" >>)
          THEN IF Ust("0") THEN WonIf(ht_total >= 1)
               ELSE IF Ust("1") THEN WonIf(ht_total >= 2)
               ELSE IF Ust("2") THEN WonIf(ht_total >= 3)
               ELSE IF Has(<< "E", "V" >>) /\ Ust("0") THEN WonIf(ht_home >= 1)
               ELSE IF Has(<< "D", "E", "P" >>) /\ Ust("0") THEN WonIf(ht_away >= 1)
               ELSE FullTime
          ELSE FullTime

----------------------------------------------------------------------------
(* Grading: api_football.py, check_prediction_result *)

\* the remaining prediction texts of the catalog
\* "MS 0.5 U:ST"
MS_05_UST == << "M", "S", " ", "0", ".", "5", " ", "U:", "S", "T" >>

\* "MS EV 1.5 U:ST"
MS_EV_15_UST == << "M", "S", " ", "E", "V", " ", "1", ".", "5", " ", "U:", "S", "T" >>

\* "MS DEP 0.5 U:ST"
MS_DEP_05_UST == << "M", "S", " ", "D", "E", "P", " ", "0", ".", "5", " ", "U:", "S", "T" >>

\* "MS DEP 1.5 U:ST"
MS_DEP_15_UST == << "M", "S", " ", "D", "E", "P", " ", "1", ".", "5", " ", "U:", "S", "T" >>

\* "MS KG VAR"
MS_KG_VAR == << "M", "S", " ", "K", "G", " ", "V", "A", "R" >>

\* "I+Y DEP 0.5 U:ST"
IY_DEP_05_UST == << "I+", "Y", " ", "D", "E", "P", " ", "0", ".", "5", " ", "U:", "S", "T" >>

\* "I+Y KG VAR"
IY_KG_VAR == << "I+", "Y", " ", "K", "G", " ", "V", "A", "R" >>

\* "I+Y SKOR 1-1"
IY_SKOR_1_1 == << "I+", "Y", " ", "S", "K", "O", "R", " ", "1", "-", "1" >>

\* the words the graders look for
W_MS  == << "M", "S" >>
W_IY  == << "I", "Y" >>
W_IIY == << "I+", "Y" >>
W_EV  == << "E", "V" >>
W_DEP == << "D", "E", "P" >>
W_UST == << "U:", "S", "T" >>
W_ALT == << "A", "L", "T" >>
W_VAR == << "V", "A", "R" >>
W_KG_VAR == << "K", "G", " ", "V", "A", "R" >>

Digits == {"0", "1", "2", "3", "4", "5", "6", "7", "8", "9"}

DigitValue(c) ==
    CASE c = "0" -> 0 [] c = "1" -> 1 [] c = "2" -> 2 [] c = "3" -> 3
      [] c = "4" -> 4 [] c = "5" -> 5 [] c = "6" -> 6 [] c = "7" -> 7
      [] c = "8" -> 8 [] c = "9" -> 9

\* str.split(): the words between runs of blanks; `word` is the word being
\* read
RECURSIVE SplitFrom(_, _, _)
SplitFrom(text, i, word) ==
    IF i > Len(text) THEN IF word = << >> THEN << >> ELSE << word >>
    ELSE IF text[i] = " "
         THEN (IF word = << >> THEN << >> ELSE << word >>) \o SplitFrom(text, i + 1, << >>)
         ELSE SplitFrom(text, i + 1, Append(word, text[i]))

Split(text) == SplitFrom(text, 1, << >>)

\* float(word) for the words d and d.d, in tenths; any other word of the
\* texts graded here is no number (ValueError)
ParseFloat(word) ==
    IF Len(word) = 1 /\ word[1] \in Digits THEN Return(10 * DigitValue(word[1]))
    ELSE IF Len(word) = 3 /\ word[1] \in Digits /\ word[2] = "." /\ word[3] \in Digits
    THEN Return(10 * DigitValue(word[1]) + DigitValue(word[3]))
    ELSE Raise

\* one of the loops `for i, part in enumerate(parts)`: from part i on, the
\* first part that is one of `keys`, has a number after it and finds the
\* text naming over or under returns; "fall" when the loop ends
RECURSIVE ApiScan(_, _, _, _, _)
ApiScan(prediction, parts, keys, goals, i) ==
    IF i > Len(parts) THEN "fall"
    ELSE IF parts[i] \in keys /\ i + 1 <= Len(parts)
    THEN LET threshold == ParseFloat(parts[i + 1])
         IN  IF threshold.exc THEN ApiScan(prediction, parts, keys, goals, i + 1)
             ELSE IF Contains(prediction, W_UST)
                  THEN IF 10 * goals > threshold.val THEN "True" ELSE "False"
             ELSE IF Contains(prediction, W_ALT)
                  THEN IF 10 * goals < threshold.val THEN "True" ELSE "False"
             ELSE ApiScan(prediction, parts, keys, goals, i + 1)
    ELSE ApiScan(prediction, parts, keys, goals, i + 1)

\* the body of `if "MS" in prediction` and of the half-time block: the home
\* side's goals after EV, the away side's after DEP, the total otherwise
ApiScope(prediction, keys, home, away) ==
    LET parts == Split(prediction)
        Among(word) == \E k \in 1..Len(parts) : parts[k] = word
    IN  IF Among(W_EV) THEN ApiScan(prediction, parts, {W_EV}, home, 1)
        ELSE IF Among(W_DEP) THEN ApiScan(prediction, parts, {W_DEP}, away, 1)
        ELSE ApiScan(prediction, parts, keys, home + away, 1)

ApiBool(b) == IF b THEN "True" ELSE "False"

\* api_football.check_prediction_result: "True", "False" or "None"
api_check_prediction_result(prediction, home_score, away_score, halftime_home, halftime_away) ==
    IF home_score.t # "num" \/ away_score.t # "num" THEN "None"   \* except Exception
    ELSE
      LET half      == Contains(prediction, W_IIY) \/ Contains(prediction, W_IY)
          no_half   == halftime_home.t = "null" \/ halftime_away.t = "null"
          full_time == IF Contains(prediction, W_MS)
                       THEN ApiScope(prediction, {W_MS}, home_score.v, away_score.v)
                       ELSE "fall"
          rest      ==
              IF half /\ (Contains(prediction, W_KG_VAR) \/ Contains(prediction, W_VAR))
              THEN IF no_half THEN "None"
                   ELSE ApiBool(halftime_home.v > 0 /\ halftime_away.v > 0)
              ELSE IF Contains(prediction, W_KG_VAR) \/ Contains(prediction, W_VAR)
              THEN ApiBool(home_score.v > 0 /\ away_score.v > 0)
              ELSE IF prediction = << "1" >> THEN ApiBool(home_score.v > away_score.v)
              ELSE IF prediction = << "X" >> THEN ApiBool(home_score.v = away_score.v)
              ELSE IF prediction = << "2" >> THEN ApiBool(home_score.v < away_score.v)
              ELSE "None"
      IN  IF full_time # "fall" THEN full_time
          ELSE IF half
          THEN IF no_half THEN "None"
               ELSE LET half_time == ApiScope(prediction, {W_IIY, W_IY},
                                              halftime_home.v, halftime_away.v)
                    IN  IF half_time # "fall" THEN half_time ELSE rest
          ELSE rest

----------------------------------------------------------------------------
(* Grading: opportunity_scorer.py, OpportunityScorer.parse_prediction_result *)

\* a cell of the history frame that holds a text
Text(v) == [t |-> "text", v |-> v]

\* the score text "h-a" of the history frame, for goals of one digit
DigitOf(n) ==
    CASE n = 0 -> "0" [] n = 1 -> "1" [] n = 2 -> "2" [] n = 3 -> "3" [] n = 4 -> "4"
      [] n = 5 -> "5" [] n = 6 -> "6" [] n = 7 -> "7" [] n = 8 -> "8" [] n = 9 -> "9"

ScoreText(home, away) == << DigitOf(home), "-", DigitOf(away) >>

\* ev, dep = map(int, skor.split("-")) for a text that holds "-"
ParseScore(text) ==
    IF Len(text) = 3 /\ text[1] \in Digits /\ text[2] = "-" /\ text[3] \in Digits
    THEN Return(<< DigitValue(text[1]), DigitValue(text[3]) >>)
    ELSE Raise

\* OpportunityScorer.parse_prediction_result: "True", "False" or "None"
parse_prediction_result(prediction, row) ==
    LET skor_ms == row.skor_ms
        skor_iy == row.skor_iy
    IN  IF skor_ms.t = "null" THEN "None"
        ELSE IF ~(skor_ms.t = "text" /\ Contains(skor_ms.v, << "-" >>)) THEN "None"
        ELSE IF ParseScore(skor_ms.v).exc THEN "None"
        ELSE IF skor_iy.t = "text" /\ Contains(skor_iy.v, << "-" >>)
                /\ ParseScore(skor_iy.v).exc THEN "None"
        ELSE
          LET ev   == ParseScore(skor_ms.v).val[1]
              dep  == ParseScore(skor_ms.v).val[2]
              has_iy == skor_iy.t = "text" /\ Contains(skor_iy.v, << "-" >>)
              iy_ev  == ParseScore(skor_iy.v).val[1]
              iy_dep == ParseScore(skor_iy.v).val[2]
              total_goals_ms == ev + dep
              total_goals_iy == iy_ev + iy_dep
              pred_upper == Upper(prediction)
              Has(sub)   == Contains(pred_upper, sub)
              Ust(n)     == Has(<< n, ".", "5", " ", "U:", "S", "T" >>)
              Alt(n)     == Has(<< n, ".", "5", " ", "A", "L", "T" >>)
          IN  IF Has(W_MS) /\ ~Has(W_IIY)
              THEN IF Ust("0") THEN ApiBool(total_goals_ms >= 1)
                   ELSE IF Ust("1") THEN ApiBool(total_goals_ms >= 2)
                   ELSE IF Ust("2") THEN ApiBool(total_goals_ms >= 3)
                   ELSE IF Ust("3") THEN ApiBool(total_goals_ms >= 4)
                   ELSE IF Alt("2") THEN ApiBool(total_goals_ms < 3)
                   ELSE IF Alt("3") THEN ApiBool(total_goals_ms < 4)
                   ELSE "None"
              ELSE IF Has(W_IIY) /\ has_iy
              THEN IF Ust("0") THEN ApiBool(total_goals_iy >= 1)
                   ELSE IF Ust("1") THEN ApiBool(total_goals_iy >= 2)
                   ELSE IF Alt("0") THEN ApiBool(total_goals_iy < 1)
                   ELSE IF Alt("1") THEN ApiBool(total_goals_iy < 2)
                   ELSE "None"
              ELSE IF Has(W_KG_VAR) \/ Has(<< "T", ".", "G", "O", "L" >>)
              THEN IF has_iy /\ Has(W_IIY)
                   THEN ApiBool(iy_ev > 0 /\ iy_dep > 0)
                   ELSE ApiBool(ev > 0 /\ dep > 0)
              ELSE IF Has(W_EV) /\ Has(W_MS)
              THEN IF Ust("0") THEN ApiBool(ev >= 1)
                   ELSE IF Ust("1") THEN ApiBool(ev >= 2)
                   ELSE "None"
              ELSE IF Has(W_DEP) /\ Has(W_MS)
              THEN IF Ust("0") THEN ApiBool(dep >= 1)
                   ELSE IF Ust("1") THEN ApiBool(dep >= 2)
                   ELSE "None"
              ELSE "None"

----------------------------------------------------------------------------
(* Fixture lookup: api_football.py, match_fixture_by_teams *)

UpperLetters ==
    << "A", "B", "C", "D", "E", "F", "G", "H", "I", "J", "K", "L", "M", "N",
       "O", "P", "Q", "R", "S", "T", "U", "V", "W", "X", "Y", "Z",
       "I+", "U:", "S,", "C,", "O:", "G^" >>

LowerLetters ==
    << "a", "b", "c", "d", "e", "f", "g", "h", "i", "j", "k", "l", "m", "n",
       "o", "p", "q", "r", "s", "t", "u", "v", "w", "x", "y", "z",
       "i+", "u:", "s,", "c,", "o:", "g^" >>

\* str.lower() on one character ("I+" is I with a dot, whose lower case
\* "i+" is i with a combining dot)
LowerChar(c) ==
    IF \E k \in 1..Len(UpperLetters) : UpperLetters[k] = c
    THEN LowerLetters[CHOOSE k \in 1..Len(UpperLetters) : UpperLetters[k] = c]
    ELSE c

Lower(text) == [k \in 1..Len(text) |-> LowerChar(text[k])]

\* turkish_chars, applied to a lower-case text ("i_" is the dotless i)
TurkishChar(c) ==
    CASE c = "i_" -> "i" [] c = "i+" -> "i" [] c = "g^" -> "g" [] c = "u:" -> "u"
      [] c = "s," -> "s" [] c = "o:" -> "o" [] c = "c," -> "c" [] OTHER -> c

Turkish(text) == [k \in 1..Len(text) |-> TurkishChar(text[k])]

\* name.replace(sub, '')
RECURSIVE RemoveAll(_, _)
RemoveAll(text, sub) ==
    IF Len(text) < Len(sub) THEN text
    ELSE IF SubSeq(text, 1, Len(sub)) = sub
         THEN RemoveAll(SubSeq(text, Len(sub) + 1, Len(text)), sub)
         ELSE << Head(text) >> \o RemoveAll(Tail(text), sub)

\* name.replace(c, ' ')
Blank(text, c) == [k \in 1..Len(text) |-> IF text[k] = c THEN " " ELSE text[k]]

\* the common words normalize removes, in the order of the loop
CommonWords ==
    << << " ", "f", "c" >>, << " ", "c", "f" >>, << " ", "s", "c" >>,
       << " ", "a", "c" >>, << " ", "c", "l", "u", "b" >>,
       << " ", "u", "n", "i", "t", "e", "d" >>, << " ", "c", "i", "t", "y" >>,
       << " ", "f", "." >>, << " ", "f", " " >> >>

RECURSIVE RemoveWords(_, _)
RemoveWords(text, i) ==
    IF i > Len(CommonWords) THEN text
    ELSE RemoveWords(RemoveAll(text, CommonWords[i]), i + 1)

\* normalize(name)
normalize(name) ==
    LET lowered  == Turkish(Strip(Lower(name)))
        stripped == RemoveWords(lowered, 1)
    IN  RemoveAll(RemoveAll(RemoveAll(stripped, << "-" >>), << "." >>), << " " >>)

\* the words get_key_words drops
StopWords ==
    { << "t", "h", "e" >>, << "f", "c" >>, << "c", "f" >>, << "s", "c" >>,
      << "a", "c" >>, << "f" >> }

\* get_key_words(name)
get_key_words(name) ==
    LET lowered == Turkish(Strip(Lower(name)))
        words   == Split(Blank(Blank(lowered, "-"), "."))
    IN  { words[k] : k \in { j \in 1..Len(words) :
                               Len(words[j]) > 2 /\ words[j] \notin StopWords } }

\* a variant of the containment rule that asks the shorter of the two
\* names for four characters, to compare against
ContainmentBonusShorter(norm, api_norm) ==
    IF (Contains(api_norm, norm) \/ Contains(norm, api_norm))
       /\ Min(Len(norm), Len(api_norm)) >= 4
    THEN 2 ELSE 0

\* the partial match of one side: +2 when one normalized name holds the
\* other and len(norm) >= 4 and (len(norm) >= 4 or len(api_norm) >= 4)
ContainmentBonus(norm, api_norm) ==
    IF (Contains(api_norm, norm) \/ Contains(norm, api_norm))
       /\ Len(norm) >= 4 /\ (Len(norm) >= 4 \/ Len(api_norm) >= 4)
    THEN 2 ELSE 0

\* home_score or away_score of one candidate
SideScore(name, api_name) ==
    ContainmentBonus(normalize(name), normalize(api_name))
    + Cardinality(get_key_words(name) \cap get_key_words(api_name))

\* a variant of the comparison with the best score so far in which a later
\* candidate wins a tie, to compare against
BeatsBestOrTies(total_score, best_score) == total_score >= best_score

\* if total_score > best_score
BeatsBest(total_score, best_score) == total_score > best_score

\* the loop over the fixtures from candidate i on; best_match is the place
\* of the best candidate so far (0: None), the result likewise
RECURSIVE MatchFrom(_, _, _, _, _, _)
MatchFrom(fixtures, home_team, away_team, i, best_match, best_score) ==
    IF i > Len(fixtures) THEN best_match
    ELSE
      LET api_home == fixtures[i].home
          api_away == fixtures[i].away
      IN  IF /\ normalize(home_team) = normalize(api_home)
             /\ normalize(away_team) = normalize(api_away)
          THEN i
          ELSE
            LET home_score  == SideScore(home_team, api_home)
                away_score  == SideScore(away_team, api_away)
                total_score == home_score + away_score
            IN  IF home_score >= 1 /\ away_score >= 1
                   /\ BeatsBest(total_score, best_score)
                THEN MatchFrom(fixtures, home_team, away_team, i + 1, i, total_score)
                ELSE MatchFrom(fixtures, home_team, away_team, i + 1,
                               best_match, best_score)

\* match_fixture_by_teams: the place of the fixture returned, 0 for None
match_fixture_by_teams(fixtures, home_team, away_team) ==
    MatchFrom(fixtures, home_team, away_team, 1, 0, 0)

----------------------------------------------------------------------------
(* The store, the score feed and the clock *)

\* Time is counted in half days: the instant `now` lies in half day `now`,
\* half days 2d and 2d+1 make day d, and a match of day d and time t kicks
\* off at the start of half day 2d+t.

\* the last half day of the clock
MaxNow == 3

\* the number of run() calls made in all
MaxRuns == 2

\* the number of storage calls that fail in all
MaxFaults == 1

\* save_predictions: batch_size = 100, scaled down so that a run of two
\* batches fits in the model
BatchSize == 2

\* track_results: get_pending_predictions(limit=200), scaled down likewise
PendingLimit == 2

Engines == {"e1", "e2"}

\* the table 'matches': a match with a time, a match without (the column
\* is nullable), both of day 1, and a match of day 2
M1 == Match(1, 1, Num(1), [k \in {"oran_45"} |-> Num(240)])
M2 == Match(2, 1, Null,   [k \in {"oran_45"} |-> Num(422)])
M3 == Match(3, 2, Num(1), [k \in {"oran_45"} |-> Num(233)])

MatchesTable == << M1, M2, M3 >>

\* the date ranges run() is called with
DateRanges == { << 1, 1 >>, << 1, 2 >> }

\* the half day the feed's fixture kicks off in
Kickoff(match_id) == CASE match_id = 1 -> 3 [] match_id = 2 -> 3 [] OTHER -> 5

\* what the feed reports of a finished fixture: M1 ended 2-1 (1-0 at half
\* time), the others 1-0 with no half-time score
FeedResult(match_id) ==
    IF match_id = 1
    THEN MatchData(Num(2), Num(1), Num(1), Num(0))
    ELSE MatchData(Num(1), Num(0), Null, Null)

\* api_football.get_match_by_teams_and_date: the fixture of the feed that
\* the teams and the date resolve to, if it is finished
get_match_by_teams_and_date(match_id) ==
    IF match_id \in feed THEN FeedResult(match_id) ELSE NoMatchData

\* self.current_run_id = None
NoRun == 0

EngineInit ==
    [ pc             |-> "idle",
      current_run_id |-> NoRun,
      date_from      |-> 0,
      date_to        |-> 0,
      n_matches      |-> 0,
      opportunities  |-> << >>,
      next           |-> 0,
      inserted_count |-> 0,
      result         |-> "none",
      handle         |-> FALSE,
      calls          |-> {},
      commit_failed  |-> FALSE,
      before         |-> {} ]

\* the admins that act on the intelligence outputs
Admins == { "a1", "a2" }

\* an admin who is not inside update_output_status
AdminIdle ==
    [ pc |-> "idle", output_id |-> 0, new_status |-> "none",
      current_status |-> "none", ret |-> "none", wrote |-> FALSE ]

\* no output has been emitted and nothing was blocked
OutputInit ==
    /\ intelligence_outputs = << >>
    /\ system_blocked_events = {}
    /\ adm = [a \in Admins |-> AdminIdle]

\* no health check was logged and no error
AuditInit ==
    /\ system_health_log = << >>
    /\ execution_errors_log = << >>

\* the tables of the validation layer, empty: the engine and the tracker
\* do not touch them
ValidationInit ==
    /\ golden_rules_table = {}
    /\ matches_table = {}
    /\ system_suggestions = {}
    /\ candidate_rules = << >>
    /\ sandbox_test_runs = << >>
    /\ sandbox_match_results = << >>

StoreInit ==
    /\ ValidationInit
    /\ OutputInit
    /\ AuditInit
    /\ now = 2
    /\ feed = {}
    /\ predictions = {}
    /\ runs = << >>
    /\ eng = [e \in Engines |-> EngineInit]
    /\ trk = [pc |-> "idle", pending |-> {}]
    /\ hist = [ faults     |-> 0,
                started    |-> 0,
                next_id    |-> 1,
                graded     |-> [m \in 1..Len(MatchesTable) |-> "none"] ]

\* the rows of 'predictions' that are active within a date range
ActiveInRange(date_from, date_to) ==
    { p \in predictions :
        /\ p.status = "active"
        /\ p.match_date >= date_from
        /\ p.match_date <= date_to }

----------------------------------------------------------------------------
(* SupabaseOpportunityEngine.run, one action per storage call *)

\* __init__: skip_past_matches: bool = True
SkipPastMatches == TRUE

\* match_dt > now; a row without a time is kept
Upcoming(match) ==
    IF match.match_time.t = "num"
    THEN 2 * match.match_date + match.match_time.v > now
    ELSE TRUE

\* load_matches_from_supabase: the rows of the range that hold odds, then
\* the filter of the started matches
LoadedMatches(date_from, date_to) ==
    SelectSeq(MatchesTable,
              LAMBDA m : /\ m.match_date >= date_from
                         /\ m.match_date <= date_to
                         /\ "opening_odds" \in DOMAIN m
                         /\ (SkipPastMatches => Upcoming(m)))

\* a variant of run() that goes on after a failed create_run, to compare
\* against
AfterCreateRunContinues(ok) == "archive"

\* run(): create_run raises when the insert of the run record fails, and
\* the except clause of run() takes over
AfterCreateRun(ok) == IF ok THEN "archive" ELSE "except"

\* run(): archive_old_predictions catches the failure of the delete and
\* returns 0; run() goes on in either case
AfterArchive(ok) == "load"

\* the row save_predictions inserts for an opportunity: the opportunity
\* with run_id, status and result, and the id the table gives it
PredictionRow(opp, id, run_id) ==
    [ id     |-> id,
      run_id |-> run_id,
      status |-> "active",
      result |-> "pending" ] @@ opp

\* a storage call may fail while fewer than MaxFaults have
Outcomes == IF hist.faults < MaxFaults THEN BOOLEAN ELSE {TRUE}

Fault(ok) == hist' = [hist EXCEPT !.faults = IF ok THEN @ ELSE @ + 1]

\* run() up to and including create_run
RunCreate(e, range, ok) ==
    /\ eng[e].pc = "idle"
    /\ hist.started < MaxRuns
    /\ LET id == Len(runs) + 1
       IN  /\ runs' = IF ok THEN Append(runs, "running") ELSE runs
           /\ eng' = [eng EXCEPT ![e] =
                  [ @ EXCEPT
                      !.pc             = AfterCreateRun(ok),
                      !.current_run_id = IF ok THEN id ELSE @,
                      !.date_from      = range[1],
                      !.date_to        = range[2],
                      !.n_matches      = 0,
                      !.opportunities  = << >>,
                      !.next           = 0,
                      !.inserted_count = 0,
                      !.result         = "none",
                      !.handle         = ok,
                      !.calls          = {},
                      !.commit_failed  = FALSE,
                      !.before         = { p.id : p \in ActiveInRange(range[1], range[2]) } ] ]
    /\ hist' = [hist EXCEPT
                  !.faults  = IF ok THEN @ ELSE @ + 1,
                  !.started = @ + 1]
    /\ UNCHANGED << engineFields, validationVars, outputVars, auditVars, call, now, feed, predictions, trk >>

\* archive_old_predictions
Archive(e, ok) ==
    /\ eng[e].pc = "archive"
    /\ predictions' = IF ok
                      THEN predictions \ ActiveInRange(eng[e].date_from, eng[e].date_to)
                      ELSE predictions
    /\ eng' = [eng EXCEPT ![e].pc = AfterArchive(ok),
                          ![e].calls = @ \cup {"archive"},
                          ![e].commit_failed = @ \/ ~ok]
    /\ Fault(ok)
    /\ UNCHANGED << engineFields, validationVars, outputVars, auditVars, call, now, feed, runs, trk >>

\* load_matches_from_supabase and process_matches, which touches no storage
Load(e, ok) ==
    /\ eng[e].pc = "load"
    /\ LET matches == LoadedMatches(eng[e].date_from, eng[e].date_to)
           r       == process_matches(matches)
           called  == [eng[e] EXCEPT !.calls = @ \cup {"load"}]
       IN  eng' = [eng EXCEPT ![e] =
               IF ~ok THEN [called EXCEPT !.pc = "except"]
               ELSE IF matches = << >> THEN [called EXCEPT !.pc = "complete"]
               ELSE IF r.exc THEN [called EXCEPT !.pc = "except"]
               ELSE [called EXCEPT
                        !.pc            = IF r.val = << >> THEN "complete" ELSE "save",
                        !.n_matches     = Len(matches),
                        !.opportunities = r.val] ]
    /\ Fault(ok)
    /\ UNCHANGED << engineFields, validationVars, outputVars, auditVars, call, now, feed, predictions, runs, trk >>

\* save_predictions: the insert of one batch
Save(e, ok) ==
    /\ eng[e].pc = "save"
    /\ LET opps  == eng[e].opportunities
           last  == Min(eng[e].next + BatchSize, Len(opps))
           batch == { PredictionRow(opps[k], hist.next_id + k - eng[e].next - 1,
                                    eng[e].current_run_id) :
                        k \in (eng[e].next + 1)..last }
       IN  /\ predictions' = IF ok THEN predictions \cup batch ELSE predictions
           /\ eng' = [eng EXCEPT ![e] =
                  IF ~ok THEN [@ EXCEPT !.pc = "except", !.calls = @ \cup {"save"},
                                        !.commit_failed = TRUE]
                  ELSE [@ EXCEPT !.next           = last,
                                 !.calls          = @ \cup {"save"},
                                 !.inserted_count = @ + Cardinality(batch),
                                 !.pc = IF last >= Len(opps) THEN "complete" ELSE "save"] ]
           /\ hist' = [hist EXCEPT
                         !.faults  = IF ok THEN @ ELSE @ + 1,
                         !.next_id = IF ok THEN @ + Cardinality(batch) ELSE @]
    /\ UNCHANGED << engineFields, validationVars, outputVars, auditVars, call, now, feed, runs, trk >>

\* complete_run(len(matches), saved_count) and the return of run()
Complete(e, ok) ==
    /\ eng[e].pc = "complete"
    /\ runs' = IF ok /\ eng[e].current_run_id # NoRun
               THEN [runs EXCEPT ![eng[e].current_run_id] = "completed"]
               ELSE runs
    /\ eng' = [eng EXCEPT ![e].pc = "idle", ![e].result = "success"]
    /\ Fault(ok)
    /\ UNCHANGED << engineFields, validationVars, outputVars, auditVars, call, now, feed, predictions, trk >>

\* the except clause of run(): complete_run(0, 0, error=error_msg), which
\* returns at once without a current_run_id, and the return of run()
Except(e, ok) ==
    /\ eng[e].pc = "except"
    /\ runs' = IF ok /\ eng[e].current_run_id # NoRun
               THEN [runs EXCEPT ![eng[e].current_run_id] = "failed"]
               ELSE runs
    /\ eng' = [eng EXCEPT ![e].pc = "idle", ![e].result = "failure"]
    /\ hist' = [hist EXCEPT
                  !.faults = IF ~ok /\ eng[e].current_run_id # NoRun THEN @ + 1 ELSE @]
    /\ UNCHANGED << engineFields, validationVars, outputVars, auditVars, call, now, feed, predictions, trk >>

----------------------------------------------------------------------------
(* ResultTracker.track_results, one action per storage call *)

\* get_pending_predictions: result = 'pending' and match_date < now
PendingRows ==
    { p \in predictions : p.result = "pending" /\ 2 * p.match_date <= now }

\* update_prediction_result: update ... where id = prediction_id
WritesRow(row, id) == row.id = id

\* track_results up to the loop: the pending rows, PendingLimit at most, in
\* an order the query leaves open; a failed query gives no rows
TrackFetch(ok) ==
    /\ trk.pc = "idle"
    /\ \E chosen \in SUBSET PendingRows :
          /\ Cardinality(chosen) = Min(PendingLimit, Cardinality(PendingRows))
          /\ trk' = IF ok /\ chosen # {}
                    THEN [pc |-> "loop", pending |-> chosen]
                    ELSE [pc |-> "idle", pending |-> {}]
    /\ Fault(ok)
    /\ UNCHANGED << engineFields, validationVars, outputVars, auditVars, call, now, feed, predictions, runs, eng >>

\* one turn of the loop of track_results, for a fetched row
TrackStep(ok) ==
    /\ trk.pc = "loop"
    /\ \E pred \in trk.pending :
          LET match_data == get_match_by_teams_and_date(pred.match_id)
              result     == check_prediction_result(pred.prediction, match_data)
              written    == match_data.present /\ result # "pending" /\ ok
              rest       == trk.pending \ {pred}
          IN  /\ predictions' =
                     IF written
                     THEN { IF WritesRow(p, pred.id)
                            THEN [p EXCEPT !.result = result] ELSE p : p \in predictions }
                     ELSE predictions
              /\ trk' = IF rest = {} THEN [pc |-> "idle", pending |-> {}]
                        ELSE [trk EXCEPT !.pending = rest]
              /\ hist' = [hist EXCEPT
                     !.faults = IF ~ok /\ match_data.present /\ result # "pending"
                                THEN @ + 1 ELSE @,
                     !.graded[pred.match_id] =
                         IF /\ written
                            /\ @ = "none"
                            /\ \E p \in predictions : p.id = pred.id
                         THEN result ELSE @ ]
    /\ UNCHANGED << engineFields, validationVars, outputVars, auditVars, call, now, feed, runs, eng >>

----------------------------------------------------------------------------
(* The environment *)

\* time passes
Tick ==
    /\ now < MaxNow
    /\ now' = now + 1
    /\ UNCHANGED << engineFields, validationVars, outputVars, auditVars, call, feed, predictions, runs, eng, trk, hist >>

\* the feed reports a fixture finished, in the half day of its kick-off or
\* later
FeedFinish(match_id) ==
    /\ match_id \notin feed
    /\ now >= Kickoff(match_id)
    /\ feed' = feed \cup {match_id}
    /\ UNCHANGED << engineFields, validationVars, outputVars, auditVars, call, now, predictions, runs, eng, trk, hist >>

----------------------------------------------------------------------------
(* The engine runs and the tracker against one store *)

Init ==
    /\ min_confidence = DefaultMinConfidence
    /\ tolerance = DefaultTolerance
    /\ golden_rules = Catalog
    /\ call = NoCall
    /\ StoreInit

Next ==
    \/ \E e \in Engines, range \in DateRanges, ok \in Outcomes : RunCreate(e, range, ok)
    \/ \E e \in Engines, ok \in Outcomes : Archive(e, ok)
    \/ \E e \in Engines, ok \in Outcomes : Load(e, ok)
    \/ \E e \in Engines, ok \in Outcomes : Save(e, ok)
    \/ \E e \in Engines, ok \in Outcomes : Complete(e, ok)
    \/ \E e \in Engines, ok \in Outcomes : Except(e, ok)
    \/ \E ok \in Outcomes : TrackFetch(ok)
    \/ \E ok \in Outcomes : TrackStep(ok)
    \/ Tick
    \/ \E m \in 1..Len(MatchesTable) : FeedFinish(m)

Spec == Init /\ [][Next]_vars

----------------------------------------------------------------------------
(* Properties of the runs *)

\* run() of engine e has returned
Returned(e) == eng[e].pc = "idle" /\ eng[e].result # "none"

\* no other engine instance was ever used
OnlyEngine(e) == \A o \in Engines \ {e} : eng[o] = EngineInit

\* the ids of the active rows within the range of the last run of e
StoredInRange(e) ==
    { p.id : p \in ActiveInRange(eng[e].date_from, eng[e].date_to) }

\* the active rows within the range of the last run of e are the full result
\* set of that run
FullResultSet(e) ==
    LET rows == ActiveInRange(eng[e].date_from, eng[e].date_to)
    IN  /\ eng[e].handle
        /\ \A p \in rows : p.run_id = eng[e].current_run_id
        /\ { p.match_id : p \in rows } =
               { eng[e].opportunities[k].match_id :
                   k \in 1..Len(eng[e].opportunities) }
        /\ Cardinality(rows) = Len(eng[e].opportunities)

\* C1: a run is a transactional unit: when run() fails, the active
\* predictions of its date range are what they were before the run, or the
\* full new result set (no other run taking part).
C1_RunIsTransactional ==
    \A e \in Engines :
        ( Returned(e) /\ eng[e].result = "failure" /\ OnlyEngine(e) ) =>
            \/ StoredInRange(e) = eng[e].before
            \/ FullResultSet(e)

\* C2: two concurrent runs over overlapping date ranges do not interleave
\* their delete-then-insert steps: once both have returned, no fixture has
\* active predictions of both runs (no storage call having failed).
C2_RunsDoNotInterleave ==
    ( hist.faults = 0 /\ \A e \in Engines : eng[e].pc = "idle" ) =>
        \A p, q \in predictions :
            ( p.status = "active" /\ q.status = "active" /\ p.match_id = q.match_id )
                => p.run_id = q.run_id

\* C3: once the prediction of a fixture has been graded won or lost, no
\* tracker pass and no engine run leaves that fixture with a prediction that
\* is pending or has the other grade (runs made one after the other on one
\* engine, no storage call having failed).
C3_GradeNeverRegresses ==
    ( hist.faults = 0 /\ OnlyEngine("e1") ) =>
        \A m \in 1..Len(MatchesTable) :
            hist.graded[m] # "none" =>
                \A p \in predictions : p.match_id = m => p.result = hist.graded[m]

\* C4: a failed storage write of the commit step (the delete of the stale
\* predictions or the insert of a batch) makes run() return failure, with
\* the run record completed as failed.
C4_CommitFailureIsFatal ==
    \A e \in Engines :
        ( Returned(e) /\ eng[e].commit_failed ) =>
            /\ eng[e].result = "failure"
            /\ runs[eng[e].current_run_id] = "failed"

\* C5: without a run record persisted by create_run, run() makes none of
\* the calls that read or change predictions (archive, load, save), and
\* returns failure.
C5_NoStepWithoutRunRecord ==
    \A e \in Engines :
        ~eng[e].handle =>
            /\ eng[e].calls = {}
            /\ eng[e].pc \in {"idle", "except"}
            /\ Returned(e) => eng[e].result = "failure"

\* C5 witness: create_run failed, run() returned failure, and the active
\* predictions of the range, which the run would have deleted, are all there
C5_Witness ==
    \E e \in Engines :
        /\ Returned(e)
        /\ ~eng[e].handle
        /\ eng[e].result = "failure"
        /\ eng[e].before # {}
        /\ StoredInRange(e) = eng[e].before

----------------------------------------------------------------------------
(* Calls of the pure methods of the engine *)

\* the length of the longest odds signature drawn
MaxPairs == 2

\* the largest tolerance drawn, in hundredths
MaxTolerance == 1

\* the labels drawn: two of the table and one that takes the slug fallback
OddsLabels == {"4-5", "VAR", "2,5 A"}

OddsKeys == {convert_odds_key(l) : l \in OddsLabels}

RequiredValues == {233, 235}

SnapshotValues == {Num(233), Num(234), Null, BadText}

\* every odds snapshot over the keys drawn; a key may be absent
Snapshots ==
    UNION { [D -> SnapshotValues] : D \in SUBSET OddsKeys }

DistinctLabels(sig) ==
    \A i, j \in 1..Len(sig) : i # j => sig[i].label # sig[j].label

\* the odds signatures of 1..MaxPairs pairs over the labels and values vs
SignaturesOver(vs) ==
    { sig \in UNION { [1..n -> [label : OddsLabels, val : vs]] : n \in 1..MaxPairs } :
        DistinctLabels(sig) }

Signatures == SignaturesOver(RequiredValues)

\* the rules drawn for match_rule_to_match: every shape of primary,
\* secondary and exclude signature over one required value
ShapeSignatures == SignaturesOver({233})

RuleShapes ==
    { GoldenRule(1, p, s, x, << KG_VAR >>, 85, "normal") :
        p \in ShapeSignatures,
        s \in ShapeSignatures \cup {<< >>},
        x \in ShapeSignatures \cup {<< >>} }

InitOdds ==
    /\ min_confidence = DefaultMinConfidence
    /\ tolerance \in 0..MaxTolerance
    /\ golden_rules = Catalog
    /\ call = NoCall
    /\ StoreInit

CallCheckOddsMatch ==
    /\ call = NoCall
    /\ \E match_odds \in Snapshots, rule_odds \in Signatures, is_exclude \in BOOLEAN :
           call' = [ op   |-> "check_odds_match",
                     args |-> [ match_odds |-> match_odds,
                                rule_odds  |-> rule_odds,
                                is_exclude |-> is_exclude ],
                     ret  |-> check_odds_match(match_odds, rule_odds, is_exclude) ]
    /\ UNCHANGED << engineFields, storeVars >>

CallMatchRuleToMatch ==
    /\ call = NoCall
    /\ \E match_odds \in Snapshots, rule \in RuleShapes :
           LET match == [id |-> 1, opening_odds |-> match_odds]
           IN  call' = [ op   |-> "match_rule_to_match",
                         args |-> [match |-> match, rule |-> rule],
                         ret  |-> match_rule_to_match(match, rule) ]
    /\ UNCHANGED << engineFields, storeVars >>

NextOdds == CallCheckOddsMatch \/ CallMatchRuleToMatch

SpecOdds == InitOdds /\ [][NextOdds]_vars

\* a pair of a signature is satisfied by a snapshot: its canonical key is
\* present with a number within the tolerance of the required value
PairSatisfied(odds, pair) ==
    LET key == convert_odds_key(pair.label)
    IN  /\ key \in DOMAIN odds
        /\ odds[key].t = "num"
        /\ Abs(odds[key].v - pair.val) <= tolerance

AllPairsSatisfied(odds, sig) ==
    \A i \in 1..Len(sig) : PairSatisfied(odds, sig[i])

SomePairSatisfied(odds, sig) ==
    \E i \in 1..Len(sig) : PairSatisfied(odds, sig[i])

\* a pair of the signature meets text that is no number
MeetsBadText(odds, sig) ==
    \E i \in 1..Len(sig) :
        LET key == convert_odds_key(sig[i].label)
        IN  key \in DOMAIN odds /\ odds[key].t = "str"

\* C7: match_rule_to_match returns true iff the primary signature matches,
\* the secondary signature is absent or matches, and the exclude signature
\* is absent or none of its pairs is satisfied (pairs with an absent key
\* being skipped); it raises only on a value that is no number.
C7_RuleMatchesIff ==
    call.op = "match_rule_to_match" =>
        LET odds == call.args.match.opening_odds
            rule == call.args.rule
        IN  /\ call.ret.exc =>
                   \/ MeetsBadText(odds, rule.primary_odds)
                   \/ MeetsBadText(odds, rule.secondary_odds)
                   \/ MeetsBadText(odds, rule.exclude_odds)
            /\ ~call.ret.exc =>
                   ( call.ret.val <=>
                       /\ AllPairsSatisfied(odds, rule.primary_odds)
                       /\ \/ rule.secondary_odds = << >>
                          \/ AllPairsSatisfied(odds, rule.secondary_odds)
                       /\ \/ rule.exclude_odds = << >>
                          \/ ~SomePairSatisfied(odds, rule.exclude_odds) )

\* C7 witness: primary and secondary match, the exclude signature has a pair
\* whose key is absent and a pair that is satisfied, and the rule is voided
C7_Witness ==
    /\ call.op = "match_rule_to_match"
    /\ ~call.ret.exc
    /\ call.ret.val = FALSE
    /\ AllPairsSatisfied(call.args.match.opening_odds, call.args.rule.primary_odds)
    /\ call.args.rule.secondary_odds # << >>
    /\ AllPairsSatisfied(call.args.match.opening_odds, call.args.rule.secondary_odds)
    /\ Len(call.args.rule.exclude_odds) = 2
    /\ convert_odds_key(call.args.rule.exclude_odds[1].label)
           \notin DOMAIN call.args.match.opening_odds
    /\ PairSatisfied(call.args.match.opening_odds, call.args.rule.exclude_odds[2])

----------------------------------------------------------------------------
(* Calls of calculate_confidence *)

\* the length of the longest prediction list drawn
MaxPredictions == 5

\* the texts the prediction lists are drawn from, in a fixed order
TextOrder == << IY_05_UST, IY_15_UST, IY_EV_05_UST, MS_15_UST, MS_25_UST,
                MS_35_UST, KG_VAR, MS_EV_05_UST, EV_MS_05_UST >>

\* the importance tiers of the bonus table, and one it does not hold
Importances == {"normal", "ozel", "onemli", "cok_onemli", "kritik"}

\* rules with every confidence_base of the documented range 0-100, every
\* importance drawn and 1..MaxPredictions predictions
ConfidenceRules ==
    { GoldenRule(1, << Pair("4-5", 233) >>, << >>, << >>,
                 SubSeq(TextOrder, 1, n), base, importance) :
        n \in 1..MaxPredictions, base \in 0..100, importance \in Importances }

InitConf ==
    /\ min_confidence = DefaultMinConfidence
    /\ tolerance = DefaultTolerance
    /\ golden_rules = Catalog
    /\ call = NoCall
    /\ StoreInit

CallCalculateConfidence ==
    /\ call = NoCall
    /\ \E rule \in ConfidenceRules, k \in 1..(MaxPredictions + 1) :
           call' = [ op   |-> "calculate_confidence",
                     args |-> [rule |-> rule, prediction |-> TextOrder[k]],
                     ret  |-> calculate_confidence(rule, TextOrder[k]) ]
    /\ UNCHANGED << engineFields, storeVars >>

NextConf == CallCalculateConfidence

SpecConf == InitConf /\ [][NextConf]_vars

\* C9: calculate_confidence is min(100, base + importance bonus (3, 2, 1, 0)
\* + rarity bonus (2 for at most 2 predictions, 1 for at most 4) + 1 for the
\* first-listed prediction), hence within 0..100 for a base of 0..100;
\* base 85, important, 2 predictions, primary gives 90.
C9_ConfidenceFormula ==
    call.op = "calculate_confidence" =>
        LET rule   == call.args.rule
            n      == Len(rule.predictions)
            imp    == IF rule.importance = "cok_onemli" THEN 3
                      ELSE IF rule.importance = "onemli" THEN 2
                      ELSE IF rule.importance = "ozel" THEN 1
                      ELSE 0
            rarity == IF n <= 2 THEN 2 ELSE IF n <= 4 THEN 1 ELSE 0
            first  == IF call.args.prediction = rule.predictions[1] THEN 1 ELSE 0
            sum    == rule.confidence_base + imp + rarity + first
        IN  /\ call.ret = IF sum > 100 THEN 100 ELSE sum
            /\ call.ret \in 0..100
            /\ ( /\ rule.confidence_base = 85
                 /\ rule.importance = "onemli"
                 /\ n = 2
                 /\ first = 1 ) => call.ret = 90

\* C9 witness: the example of the claim
C9_Witness ==
    /\ call.op = "calculate_confidence"
    /\ call.args.rule.confidence_base = 85
    /\ call.args.rule.importance = "onemli"
    /\ Len(call.args.rule.predictions) = 2
    /\ call.args.prediction = call.args.rule.predictions[1]
    /\ call.ret = 90

----------------------------------------------------------------------------
(* Calls of process_matches *)

\* the length of the longest catalog drawn
MaxRules == 3

\* the length of the longest batch drawn
MaxBatch == 2

\* odds that rule 6 and rule 61 both match
FxBoth == Match(1, 1, Num(1), [k \in {"oran_45", "2,5_a"} |->
                                   IF k = "oran_45" THEN Num(260) ELSE Num(283)])

\* odds that rule 30 matches
FxOne == Match(2, 1, Num(1), [k \in {"oran_45"} |-> Num(233)])

\* an odds value that is no number
FxBadOdds == Match(3, 1, Num(1), [k \in {"oran_45"} |-> BadText])

\* odds that rule 46 matches, in a row without the key 'league'
FxNoLeague ==
    DictWithout(Match(4, 1, Num(1), [k \in {"oran_45"} |-> Num(422)]), "league")

\* odds 0.01 away from the odds of rule 6
FxNear == Match(5, 1, Num(1), [k \in {"oran_45"} |-> Num(261)])

\* a row without odds
FxNoOdds == DictWithout(Match(6, 1, Num(1), << >>), "opening_odds")

BatchFixtures == {FxBoth, FxOne, FxBadOdds, FxNoLeague, FxNear, FxNoOdds}

Batches == UNION { [1..n -> BatchFixtures] : n \in 1..MaxBatch }

CatalogRules == {Rule30, Rule6, Rule61, Rule46}

\* the catalogs drawn: sequences of 1..MaxRules different rules
Catalogs ==
    { c \in UNION { [1..n -> CatalogRules] : n \in 1..MaxRules } :
        \A i, j \in 1..Len(c) : i # j => c[i] # c[j] }

\* a min_confidence that the best prediction of rule 30 just reaches
HighMinConfidence == calculate_confidence(Rule30, Rule30.predictions[1])

InitProc ==
    /\ min_confidence \in {DefaultMinConfidence, HighMinConfidence}
    /\ tolerance \in 0..MaxTolerance
    /\ golden_rules \in Catalogs
    /\ call = NoCall
    /\ StoreInit

CallProcessMatches ==
    /\ call = NoCall
    /\ \E matches \in Batches :
           call' = [ op   |-> "process_matches",
                     args |-> [matches |-> matches],
                     ret  |-> process_matches(matches) ]
    /\ UNCHANGED << engineFields, storeVars >>

NextProc == CallProcessMatches

SpecProc == InitProc /\ [][NextProc]_vars

\* the opportunities of the fixtures of a batch, from fixture i on, leaving
\* out the fixtures whose own evaluation raises
RECURSIVE OpportunitiesOfGood(_, _)
OpportunitiesOfGood(matches, i) ==
    IF i > Len(matches) THEN << >>
    ELSE LET r == ProcessOne(matches[i])
         IN  (IF r.exc THEN << >> ELSE r.val) \o OpportunitiesOfGood(matches, i + 1)

\* C6: per-fixture errors are isolated: a fixture whose evaluation raises is
\* skipped, and process_matches still returns the opportunity of every other
\* fixture of the batch.
C6_BadFixtureIsolated ==
    call.op = "process_matches" =>
        /\ ~call.ret.exc
        /\ call.ret.val = OpportunitiesOfGood(call.args.matches, 1)

\* the (rule, prediction) pairs of the rules of the catalog that match a
\* fixture: r the place of the rule in the catalog, k the place of the
\* prediction in the rule
MatchingPairs(match) ==
    UNION { { << r, k >> : k \in 1..Len(golden_rules[r].predictions) } :
              r \in { i \in 1..Len(golden_rules) :
                         match_rule_to_match(match, golden_rules[i]).val } }

PairConfidence(pr) ==
    calculate_confidence(golden_rules[pr[1]], golden_rules[pr[1]].predictions[pr[2]])

\* q is ranked before p: higher confidence, or the same and earlier in the
\* catalog, or the same rule and earlier in its predictions
RankedBefore(q, p) ==
    \/ PairConfidence(q) > PairConfidence(p)
    \/ /\ PairConfidence(q) = PairConfidence(p)
       /\ \/ q[1] < p[1]
          \/ q[1] = p[1] /\ q[2] < p[2]

RankOf(match, p) ==
    1 + Cardinality({ q \in MatchingPairs(match) : RankedBefore(q, p) })

\* the opportunity's ranking: its primary prediction, then its alternatives
RankingOf(opp) ==
    << [bet |-> opp.prediction, confidence |-> opp.confidence] >>
    \o [ k \in 1..Len(opp.alternative_predictions) |->
           [ bet        |-> opp.alternative_predictions[k].bet,
             confidence |-> opp.alternative_predictions[k].confidence ] ]

\* C10: the (rule, prediction) pairs of the matching rules are ranked in
\* descending confidence, ties in catalog order (rule, then prediction); the
\* primary prediction is the first entry and the alternatives are all the
\* remaining entries in that order.
C10_RankingStable ==
    ( call.op = "process_matches" /\ ~call.ret.exc ) =>
        \A n \in 1..Len(call.ret.val) :
            LET opp == call.ret.val[n]
            IN  \E m \in 1..Len(call.args.matches) :
                    LET match == call.args.matches[m]
                        pairs == MatchingPairs(match)
                    IN  /\ match.id = opp.match_id
                        /\ Len(RankingOf(opp)) = Cardinality(pairs)
                        /\ \A p \in pairs :
                               /\ RankingOf(opp)[RankOf(match, p)] =
                                      [ bet |-> golden_rules[p[1]].predictions[p[2]],
                                        confidence |-> PairConfidence(p) ]
                               /\ RankOf(match, p) > 1 =>
                                      opp.alternative_predictions[RankOf(match, p) - 1].rule_id
                                          = golden_rules[p[1]].id

\* C10 witness: an opportunity of two matching rules, the later rule of the
\* catalog holding the highest confidence, with a tie between entries of the
\* two rules among the alternatives
C10_Witness ==
    /\ call.op = "process_matches"
    /\ ~call.ret.exc
    /\ \E n \in 1..Len(call.ret.val) :
           LET alts == call.ret.val[n].alternative_predictions
           IN  /\ Len(call.ret.val[n].matched_rules) = 2
               /\ Len(alts) >= 3
               /\ alts[1].rule_id = call.ret.val[n].matched_rules[1]
               /\ alts[2].rule_id = call.ret.val[n].matched_rules[2]
               /\ alts[1].confidence = alts[2].confidence
               /\ alts[1].confidence < call.ret.val[n].confidence

\* the rules of the catalog that match a fixture, in catalog order
MatchingRuleIds(match) ==
    LET matching == SelectSeq(golden_rules,
                              LAMBDA rule : match_rule_to_match(match, rule).val)
    IN  [ k \in 1..Len(matching) |-> matching[k].id ]

\* at least one rule matches the fixture and the highest confidence among
\* the matched predictions reaches min_confidence
Eligible(match) ==
    \E p \in MatchingPairs(match) : PairConfidence(p) >= min_confidence

\* C11: process_matches emits exactly one opportunity for a fixture iff a
\* rule matches it and the highest confidence among the matched predictions
\* is >= min_confidence (the opportunities are those of the eligible
\* fixtures, in batch order); a batch of fixtures matching no rule yields no
\* opportunity and no error; matched_rules lists every matching rule.
C11_OneOpportunityIff ==
    call.op = "process_matches" =>
        LET matches  == call.args.matches
            eligible == SelectSeq(matches, Eligible)
        IN  /\ ~call.ret.exc =>
                  /\ Len(call.ret.val) = Len(eligible)
                  /\ \A n \in 1..Len(eligible) :
                         /\ call.ret.val[n].match_id = eligible[n].id
                         /\ call.ret.val[n].matched_rules = MatchingRuleIds(eligible[n])
            /\ ( \A m \in 1..Len(matches) : \A r \in 1..Len(golden_rules) :
                      match_rule_to_match(matches[m], golden_rules[r]) = Return(FALSE) )
                  => call.ret = Return(<< >>)

\* C11 witness: of two fixtures that each match a rule, one is emitted with
\* a confidence of exactly min_confidence and the other, whose best
\* prediction lies below, is not; and a batch matching no rule came back empty
C11_Witness ==
    /\ call.op = "process_matches"
    /\ ~call.ret.exc
    /\ Len(call.args.matches) = 2
    /\ \A m \in 1..2 : MatchingPairs(call.args.matches[m]) # {}
    /\ Len(call.ret.val) = 1
    /\ call.ret.val[1].confidence = min_confidence
    /\ Len(call.ret.val[1].matched_rules) = 1

----------------------------------------------------------------------------
(* Calls of the three graders *)

\* the most goals a side scores
MaxGoals == 2

\* the prediction texts of the catalog
CatalogTexts ==
    { EV_MS_05_UST, KG_VAR, MS_05_UST, MS_15_UST, MS_25_UST, MS_35_UST,
      MS_DEP_05_UST, MS_DEP_15_UST, MS_EV_05_UST, MS_EV_15_UST, MS_KG_VAR,
      IY_05_UST, IY_15_UST, IY_DEP_05_UST, IY_EV_05_UST, IY_KG_VAR, IY_SKOR_1_1 }

\* "MS 2.5 ALT", which the graders know and the catalog does not use
MS_25_ALT == << "M", "S", " ", "2", ".", "5", " ", "A", "L", "T" >>

\* "IY 0.5 UST", the spelling without diacritics that ResultTracker looks for
IY_05_UST_PLAIN == << "I", "Y", " ", "0", ".", "5", " ", "U", "S", "T" >>

GradeTexts == CatalogTexts \cup {MS_25_ALT, IY_05_UST_PLAIN}

\* the scores of a finished fixture: the half-time score is unknown or is a
\* score the final score can follow
GradeScores ==
    { sc \in [ home : 0..MaxGoals, away : 0..MaxGoals,
               ht_home : {Null} \cup { Num(n) : n \in 0..MaxGoals },
               ht_away : {Null} \cup { Num(n) : n \in 0..MaxGoals } ] :
        /\ (sc.ht_home = Null) = (sc.ht_away = Null)
        /\ sc.ht_home # Null => sc.ht_home.v <= sc.home /\ sc.ht_away.v <= sc.away }

\* the row of the history frame with these scores
HistoryRow(sc) ==
    [ skor_ms |-> Text(ScoreText(sc.home, sc.away)),
      skor_iy |-> IF sc.ht_home = Null THEN Null
                  ELSE Text(ScoreText(sc.ht_home.v, sc.ht_away.v)) ]

InitGrade ==
    /\ min_confidence = DefaultMinConfidence
    /\ tolerance = DefaultTolerance
    /\ golden_rules = Catalog
    /\ call = NoCall
    /\ StoreInit

CallTrackerCheck ==
    /\ call = NoCall
    /\ \E prediction \in GradeTexts, sc \in GradeScores :
           call' = [ op   |-> "ResultTracker.check_prediction_result",
                     args |-> [prediction |-> prediction, score |-> sc],
                     ret  |-> check_prediction_result(prediction,
                                  MatchData(Num(sc.home), Num(sc.away),
                                            sc.ht_home, sc.ht_away)) ]
    /\ UNCHANGED << engineFields, storeVars >>

CallApiCheck ==
    /\ call = NoCall
    /\ \E prediction \in GradeTexts, sc \in GradeScores :
           call' = [ op   |-> "api_football.check_prediction_result",
                     args |-> [prediction |-> prediction, score |-> sc],
                     ret  |-> api_check_prediction_result(prediction,
                                  Num(sc.home), Num(sc.away), sc.ht_home, sc.ht_away) ]
    /\ UNCHANGED << engineFields, storeVars >>

CallParsePredictionResult ==
    /\ call = NoCall
    /\ \E prediction \in GradeTexts, sc \in GradeScores :
           call' = [ op   |-> "OpportunityScorer.parse_prediction_result",
                     args |-> [prediction |-> prediction, score |-> sc],
                     ret  |-> parse_prediction_result(prediction, HistoryRow(sc)) ]
    /\ UNCHANGED << engineFields, storeVars >>

NextGrade == CallTrackerCheck \/ CallApiCheck \/ CallParsePredictionResult

SpecGrade == InitGrade /\ [][NextGrade]_vars

\* the grade a grader's result stands for
GradeOf(ret) ==
    CASE ret \in {"won", "True"}   -> "won"
      [] ret \in {"lost", "False"} -> "lost"
      [] OTHER                     -> "indeterminate"

GraderOps ==
    { "ResultTracker.check_prediction_result",
      "api_football.check_prediction_result",
      "OpportunityScorer.parse_prediction_result" }

\* what the over/under texts ask for: the scope, the side, the direction
\* and the threshold in tenths
OverUnder(text, half, side, over, threshold) ==
    [text |-> text, half |-> half, side |-> side, over |-> over, threshold |-> threshold]

OverUnderTexts ==
    { OverUnder(MS_05_UST,     FALSE, "total", TRUE,  5),
      OverUnder(MS_15_UST,     FALSE, "total", TRUE,  15),
      OverUnder(MS_25_UST,     FALSE, "total", TRUE,  25),
      OverUnder(MS_35_UST,     FALSE, "total", TRUE,  35),
      OverUnder(MS_25_ALT,     FALSE, "total", FALSE, 25),
      OverUnder(MS_EV_05_UST,  FALSE, "home",  TRUE,  5),
      OverUnder(MS_EV_15_UST,  FALSE, "home",  TRUE,  15),
      OverUnder(MS_DEP_05_UST, FALSE, "away",  TRUE,  5),
      OverUnder(MS_DEP_15_UST, FALSE, "away",  TRUE,  15),
      OverUnder(IY_05_UST,     TRUE,  "total", TRUE,  5),
      OverUnder(IY_15_UST,     TRUE,  "total", TRUE,  15),
      OverUnder(IY_EV_05_UST,  TRUE,  "home",  TRUE,  5),
      OverUnder(IY_DEP_05_UST, TRUE,  "away",  TRUE,  5) }

\* the goal count an over/under text is about
RelevantGoals(ou, sc) ==
    LET home == IF ou.half THEN sc.ht_home.v ELSE sc.home
        away == IF ou.half THEN sc.ht_away.v ELSE sc.away
    IN  CASE ou.side = "home" -> home
          [] ou.side = "away" -> away
          [] OTHER            -> home + away

\* C12: an over/under prediction at threshold t is graded won iff the goal
\* count of its scope and side is > t for over and < t for under, and lost
\* otherwise, by api_football.check_prediction_result and by
\* ResultTracker.check_prediction_result (the score of the scope known).
C12_OverUnderGrading ==
    ( call.op \in { "ResultTracker.check_prediction_result",
                    "api_football.check_prediction_result" } ) =>
        \A ou \in OverUnderTexts :
            ( ou.text = call.args.prediction
              /\ (ou.half => call.args.score.ht_home # Null) ) =>
                LET goals == RelevantGoals(ou, call.args.score)
                    won   == IF ou.over THEN 10 * goals > ou.threshold
                                        ELSE 10 * goals < ou.threshold
                IN  GradeOf(call.ret) = IF won THEN "won" ELSE "lost"

\* the texts of half-time scope
HalfTimeTexts ==
    { IY_05_UST, IY_15_UST, IY_DEP_05_UST, IY_EV_05_UST, IY_KG_VAR, IY_SKOR_1_1,
      IY_05_UST_PLAIN }

\* C13: a prediction of half-time scope whose half-time score is unknown is
\* graded indeterminate by api_football.check_prediction_result (None) and
\* by ResultTracker.check_prediction_result ('pending'), never won or lost.
C13_UnknownHalfTimeIndeterminate ==
    ( /\ call.op \in { "ResultTracker.check_prediction_result",
                       "api_football.check_prediction_result" }
      /\ call.args.prediction \in HalfTimeTexts
      /\ call.args.score.ht_home = Null ) =>
        /\ GradeOf(call.ret) = "indeterminate"
        /\ call.op = "ResultTracker.check_prediction_result" => call.ret = "pending"
        /\ call.op = "api_football.check_prediction_result" => call.ret = "None"

\* C14: for every prediction text of the catalog and every score, the three
\* graders return the same grade.
C14_GradersAgree ==
    ( call.op \in GraderOps /\ call.args.prediction \in CatalogTexts ) =>
        LET prediction == call.args.prediction
            sc         == call.args.score
        IN  /\ GradeOf(call.ret) =
                   GradeOf(check_prediction_result(prediction,
                               MatchData(Num(sc.home), Num(sc.away),
                                         sc.ht_home, sc.ht_away)))
            /\ GradeOf(call.ret) =
                   GradeOf(api_check_prediction_result(prediction,
                               Num(sc.home), Num(sc.away), sc.ht_home, sc.ht_away))
            /\ GradeOf(call.ret) =
                   GradeOf(parse_prediction_result(prediction, HistoryRow(sc)))

----------------------------------------------------------------------------
(* Calls of match_fixture_by_teams *)

\* the longest list of fixtures of the feed drawn
MaxFixtures == 2

\* team names of the predictions (T_) and of the feed (A_)
\* "Bes,iktas,"
T_Besiktas_TR == << "B", "e", "s,", "i", "k", "t", "a", "s," >>

\* "Real Madrid"
T_Real_Madrid == << "R", "e", "a", "l", " ", "M", "a", "d", "r", "i", "d" >>

\* "Barcelona"
T_Barcelona == << "B", "a", "r", "c", "e", "l", "o", "n", "a" >>

\* "Rio"
T_Rio == << "R", "i", "o" >>

\* "Besiktas"
A_Besiktas == << "B", "e", "s", "i", "k", "t", "a", "s" >>

\* "Real Madrid CF"
A_Real_Madrid_CF == << "R", "e", "a", "l", " ", "M", "a", "d", "r", "i", "d", " ", "C", "F" >>

\* "Real Betis"
A_Real_Betis == << "R", "e", "a", "l", " ", "B", "e", "t", "i", "s" >>

\* "Bar"
A_Bar == << "B", "a", "r" >>

\* "Rio Ave"
A_Rio_Ave == << "R", "i", "o", " ", "A", "v", "e" >>

\* "Rio Branco"
A_Rio_Branco == << "R", "i", "o", " ", "B", "r", "a", "n", "c", "o" >>

\* the home and away team of a prediction
TeamPairs ==
    { << T_Besiktas_TR, T_Real_Madrid >>, << T_Barcelona, T_Rio >>,
      << T_Real_Madrid, T_Rio >> }

ApiNames ==
    { A_Besiktas, A_Real_Madrid_CF, A_Real_Betis, A_Bar, A_Rio_Ave, A_Rio_Branco }

\* a fixture of the feed: fixture["teams"]["home"]["name"] and the away name
ApiFixtures == [ home : ApiNames, away : ApiNames ]

FixtureLists == UNION { [1..n -> ApiFixtures] : n \in 0..MaxFixtures }

InitMatch ==
    /\ min_confidence = DefaultMinConfidence
    /\ tolerance = DefaultTolerance
    /\ golden_rules = Catalog
    /\ call = NoCall
    /\ StoreInit

CallMatchFixtureByTeams ==
    /\ call = NoCall
    /\ \E fixtures \in FixtureLists, teams \in TeamPairs :
           call' = [ op   |-> "match_fixture_by_teams",
                     args |-> [ fixtures  |-> fixtures,
                                home_team |-> teams[1],
                                away_team |-> teams[2] ],
                     ret  |-> match_fixture_by_teams(fixtures, teams[1], teams[2]) ]
    /\ UNCHANGED << engineFields, storeVars >>

NextMatch == CallMatchFixtureByTeams

SpecMatch == InitMatch /\ [][NextMatch]_vars

\* candidate i of a call is an exact match
ExactCandidate(args, i) ==
    /\ normalize(args.home_team) = normalize(args.fixtures[i].home)
    /\ normalize(args.away_team) = normalize(args.fixtures[i].away)

\* candidate i of a call is eligible: both sides score at least 1
EligibleCandidate(args, i) ==
    /\ SideScore(args.home_team, args.fixtures[i].home) >= 1
    /\ SideScore(args.away_team, args.fixtures[i].away) >= 1

SummedScore(args, i) ==
    SideScore(args.home_team, args.fixtures[i].home)
    + SideScore(args.away_team, args.fixtures[i].away)

\* C15: match_fixture_by_teams returns an exact candidate if there is one;
\* otherwise the eligible candidate of the highest summed score, the first
\* seen winning ties; none when no candidate is eligible. A candidate that
\* scores 0 on a side is returned only as an exact match.
C15_BestCandidate ==
    call.op = "match_fixture_by_teams" =>
        LET args  == call.args
            cands == 1..Len(args.fixtures)
            exact == { i \in cands : ExactCandidate(args, i) }
            elig  == { i \in cands : EligibleCandidate(args, i) }
        IN  /\ exact # {} => call.ret \in exact
            /\ (exact = {} /\ elig = {}) => call.ret = 0
            /\ (exact = {} /\ elig # {}) =>
                   /\ call.ret \in elig
                   /\ \A j \in elig :
                          \/ SummedScore(args, j) < SummedScore(args, call.ret)
                          \/ SummedScore(args, j) = SummedScore(args, call.ret)
                             /\ j >= call.ret
            /\ (call.ret # 0 /\ ~EligibleCandidate(args, call.ret)) =>
                   ExactCandidate(args, call.ret)

\* C15 witness: no exact candidate, two eligible candidates of different
\* names with the same summed score, and the first is returned
C15_Witness ==
    /\ call.op = "match_fixture_by_teams"
    /\ Len(call.args.fixtures) = 2
    /\ call.args.fixtures[1] # call.args.fixtures[2]
    /\ \A i \in 1..2 : ~ExactCandidate(call.args, i) /\ EligibleCandidate(call.args, i)
    /\ SummedScore(call.args, 1) = SummedScore(call.args, 2)
    /\ call.ret = 1

\* C16: normalized-string containment adds +2 to a side's score only if the
\* shorter of the two normalized names has length >= 4: a contained name
\* of fewer than 4 characters adds nothing.
C16_ContainmentNeedsFourChars ==
    call.op = "match_fixture_by_teams" =>
        \A i \in 1..Len(call.args.fixtures) :
            LET norm     == normalize(call.args.home_team)
                api_norm == normalize(call.args.fixtures[i].home)
            IN  ContainmentBonus(norm, api_norm) = 2 <=>
                    /\ Contains(api_norm, norm) \/ Contains(norm, api_norm)
                    /\ Len(norm) >= 4
                    /\ Len(api_norm) >= 4

----------------------------------------------------------------------------
(* Statistics of the validation layer: sandbox_evaluator.py, learning_engine.py *)

\* A percentage is a float in the code. It is held exactly, as the fraction
\* n / d of whole numbers with d > 0.
SandboxEvaluator_min_sample_size == 30

Frac(n, d) == [n |-> n, d |-> d]

\* the whole percentage x
Pct(x) == Frac(x, 1)

\* a - b, a > b and a >= b on fractions
Minus(a, b) == Frac(a.n * b.d - b.n * a.d, a.d * b.d)

Gt(a, b) == a.n * b.d > b.n * a.d

Ge(a, b) == a.n * b.d >= b.n * a.d

\* p_value < 0.05 for p_value = 2 * (1 - norm.cdf(abs(z))): abs(z) exceeds
\* 1.95996, that is z * z exceeds 3.8415 (held in ten-thousandths, as a
\* whole part and a fraction); z * z is the quotient num / den
CriticalWhole == 3
CriticalFraction == 8415

ExceedsCritical(num, den) ==
    \/ num \div den > CriticalWhole
    \/ /\ num \div den = CriticalWhole
       /\ (num % den) * 10000 > CriticalFraction * den

\* A p-value 2 * (1 - norm.cdf(abs(z))) is held as the fraction z * z: it
\* is 1.0 when z * z is 0 and below 0.05 when z * z exceeds 3.8415
PValueOne == Frac(0, 1)

BelowFiveHundredths(p_value) == ExceedsCritical(p_value.n, p_value.d)

\* a variant of _proportion_test to compare against: the sample size is
\* not looked at first, and successes / total divides by zero
proportion_test_unguarded(successes, total, expected_num, expected_den) ==
    IF total = 0
    THEN Raise
    ELSE IF expected_num * (expected_den - expected_num) = 0
    THEN Return(PValueOne)
    ELSE LET d == successes * expected_den - expected_num * total
         IN  Return(Frac(d * d, total * expected_num * (expected_den - expected_num)))

\* LearningEngine._proportion_test and SandboxEvaluator._proportion_test
\* (the same text), for the expected proportion expected_num / expected_den:
\*   z = (successes / total - expected) / sqrt(expected * (1 - expected) / total)
proportion_test(successes, total, expected_num, expected_den) ==
    IF total = 0
    THEN Return(PValueOne)
    ELSE IF expected_num * (expected_den - expected_num) = 0
    THEN Return(PValueOne)      \* se == 0
    ELSE LET d == successes * expected_den - expected_num * total
         IN  Return(Frac(d * d, total * expected_num * (expected_den - expected_num)))

\* p_value = self._proportion_test(...); p_value < 0.05
ProportionTestSignificant(successes, total, expected_num, expected_den) ==
    LET p_value == proportion_test(successes, total, expected_num, expected_den)
    IN  ~p_value.exc /\ BelowFiveHundredths(p_value.val)

----------------------------------------------------------------------------
(* Sandbox verdict: sandbox_evaluator.py, SandboxEvaluator *)

\* a variant of _generate_recommendation to compare against: a delta of
\* exactly 5 points is enough to approve
generate_recommendation_inclusive(sample_size, win_rate_delta, is_significant, win_rate) ==
    IF sample_size < SandboxEvaluator_min_sample_size THEN "insufficient_data"
    ELSE IF ~is_significant THEN "reject"
    ELSE IF Ge(win_rate_delta, Pct(5)) /\ Gt(win_rate, Pct(75)) THEN "approve"
    ELSE IF Gt(win_rate_delta, Pct(0)) /\ Gt(win_rate, Pct(70)) THEN "needs_tuning"
    ELSE "reject"

\* SandboxEvaluator._generate_recommendation: the recommendation (the
\* reason text is left out)
generate_recommendation(sample_size, win_rate_delta, is_significant, win_rate) ==
    IF sample_size < SandboxEvaluator_min_sample_size THEN "insufficient_data"
    ELSE IF ~is_significant THEN "reject"
    ELSE IF Gt(win_rate_delta, Pct(5)) /\ Gt(win_rate, Pct(75)) THEN "approve"
    ELSE IF Gt(win_rate_delta, Pct(0)) /\ Gt(win_rate, Pct(70)) THEN "needs_tuning"
    ELSE "reject"

\* a simulated prediction of a rule on a match, or None when the rule did
\* not trigger
NoPrediction == [predicted |-> FALSE, result |-> "none"]
Predicted(result) == [predicted |-> TRUE, result |-> result]

\* [r for r in results if r and r['predicted']]
Preds(results) == { i \in DOMAIN results : results[i].predicted }

Wins(results) == { i \in Preds(results) : results[i].result = "won" }

Losses(results) == { i \in Preds(results) : results[i].result = "lost" }

\* (wins / total * 100) if total > 0 else 0.0
WinRate(wins, total) == IF total > 0 THEN Frac(100 * wins, total) ELSE Pct(0)

\* SandboxEvaluator._calculate_test_metrics
calculate_test_metrics(candidate_results, baseline_results) ==
    LET candidate_total    == Cardinality(Preds(candidate_results))
        candidate_wins     == Cardinality(Wins(candidate_results))
        candidate_win_rate == WinRate(candidate_wins, candidate_total)
        baseline_total     == Cardinality(Preds(baseline_results))
        baseline_wins      == Cardinality(Wins(baseline_results))
        baseline_win_rate  == WinRate(baseline_wins, baseline_total)
        win_rate_delta     == Minus(candidate_win_rate, baseline_win_rate)
        is_significant     ==
            IF /\ candidate_total >= SandboxEvaluator_min_sample_size
               /\ baseline_total >= SandboxEvaluator_min_sample_size
            THEN IF baseline_total > 0
                 THEN ProportionTestSignificant(candidate_wins, candidate_total, baseline_wins, baseline_total)
                 ELSE ProportionTestSignificant(candidate_wins, candidate_total, 1, 2)
            ELSE FALSE
    IN  [ total_matches         |-> Len(candidate_results),
          candidate_predictions |-> candidate_total,
          candidate_wins        |-> candidate_wins,
          candidate_losses      |-> Cardinality(Losses(candidate_results)),
          candidate_win_rate    |-> candidate_win_rate,
          baseline_predictions  |-> baseline_total,
          baseline_wins         |-> baseline_wins,
          baseline_losses       |-> Cardinality(Losses(baseline_results)),
          baseline_win_rate     |-> baseline_win_rate,
          win_rate_delta        |-> win_rate_delta,
          is_significant        |-> is_significant,
          recommendation        |->
              generate_recommendation(candidate_total, win_rate_delta,
                                      is_significant, candidate_win_rate) ]

----------------------------------------------------------------------------
(* Calls of the sandbox verdict *)

\* the sample sizes around min_sample_size, and no sample at all
SampleSizes ==
    {0} \cup ((SandboxEvaluator_min_sample_size - 1) .. (SandboxEvaluator_min_sample_size + 1))

\* the number of historical matches of a test run
SandboxMatches == SandboxEvaluator_min_sample_size + 1

\* win-rate deltas and win rates at and next to the thresholds of the table
Deltas == { Pct(-10), Frac(-1, 100), Pct(0), Frac(1, 100), Frac(499, 100), Pct(5),
            Frac(501, 100), Pct(20) }

Rates == { Pct(60), Pct(70), Frac(7001, 100), Pct(75), Frac(7501, 100), Pct(90) }

\* the per-match results of a rule that predicted on `total` of the
\* matches: `wins` won, `unknown` of unknown result, the others lost
Results(total, wins, unknown) ==
    [ i \in 1..SandboxMatches |->
        IF i <= wins THEN Predicted("won")
        ELSE IF i <= wins + unknown THEN Predicted("unknown")
        ELSE IF i <= total THEN Predicted("lost")
        ELSE NoPrediction ]

InitSandbox ==
    /\ min_confidence = DefaultMinConfidence
    /\ tolerance = DefaultTolerance
    /\ golden_rules = Catalog
    /\ call = NoCall
    /\ StoreInit

CallGenerateRecommendation ==
    /\ call = NoCall
    /\ \E sample_size \in SampleSizes, win_rate_delta \in Deltas,
          is_significant \in BOOLEAN, win_rate \in Rates :
         call' = [ op   |-> "_generate_recommendation",
                   args |-> [ sample_size    |-> sample_size,
                              win_rate_delta |-> win_rate_delta,
                              is_significant |-> is_significant,
                              win_rate       |-> win_rate ],
                   ret  |-> generate_recommendation(sample_size, win_rate_delta,
                                                    is_significant, win_rate) ]
    /\ UNCHANGED << engineFields, storeVars >>

CallCalculateTestMetrics ==
    /\ call = NoCall
    /\ \E candidate_total \in SampleSizes, baseline_total \in SampleSizes :
       \E candidate_wins \in 0..candidate_total, baseline_wins \in 0..baseline_total :
       \E unknown \in 0..Min(1, candidate_total - candidate_wins) :
         LET candidate_results == Results(candidate_total, candidate_wins, unknown)
             baseline_results  == Results(baseline_total, baseline_wins, 0)
         IN  call' = [ op   |-> "_calculate_test_metrics",
                       args |-> [ candidate_results |-> candidate_results,
                                  baseline_results  |-> baseline_results ],
                       ret  |-> calculate_test_metrics(candidate_results, baseline_results) ]
    /\ UNCHANGED << engineFields, storeVars >>

NextSandbox == CallGenerateRecommendation \/ CallCalculateTestMetrics

SpecSandbox == InitSandbox /\ [][NextSandbox]_vars

\* the recommendation that the decision table gives
TableSays(rec, candidateTotal, winRateDelta, significant, candidateRate) ==
    LET enough  == candidateTotal >= 30
        approve == winRateDelta.n > 5 * winRateDelta.d
                   /\ candidateRate.n > 75 * candidateRate.d
        tune    == winRateDelta.n > 0
                   /\ candidateRate.n > 70 * candidateRate.d
    IN  /\ rec \in {"insufficient_data", "reject", "approve", "needs_tuning"}
        /\ rec = "insufficient_data" <=> ~enough
        /\ rec = "approve" <=> enough /\ significant /\ approve
        /\ rec = "needs_tuning" <=> enough /\ significant /\ ~approve /\ tune

\* C17: the sandbox recommendation follows the decision table in order:
\* fewer than 30 candidate predictions give insufficient_data; else a
\* result that is not significant gives reject; else a delta above 5 with
\* a candidate rate above 75 gives approve; else a delta above 0 with a
\* rate above 70 gives needs_tuning; else reject. A delta of exactly 5
\* with a rate of 75, significant, gives needs_tuning. The metrics hold a
\* result significant only on 30 or more predictions of candidate and baseline.
C17_DecisionTable ==
    /\ call.op = "_generate_recommendation" =>
         /\ TableSays(call.ret, call.args.sample_size, call.args.win_rate_delta,
                      call.args.is_significant, call.args.win_rate)
         /\ ( /\ call.args.sample_size >= 30
              /\ call.args.is_significant
              /\ call.args.win_rate_delta = Pct(5)
              /\ call.args.win_rate = Pct(75) ) => call.ret = "needs_tuning"
    /\ call.op = "_calculate_test_metrics" =>
         /\ TableSays(call.ret.recommendation, call.ret.candidate_predictions,
                      call.ret.win_rate_delta,
                      call.ret.is_significant, call.ret.candidate_win_rate)
         /\ call.ret.is_significant =>
                call.ret.candidate_predictions >= 30 /\ call.ret.baseline_predictions >= 30

\* C17 witness: the boundary call, answered needs_tuning
C17_Witness ==
    /\ call.op = "_generate_recommendation"
    /\ call.args.sample_size >= 30
    /\ call.args.is_significant
    /\ call.args.win_rate_delta = Pct(5)
    /\ call.args.win_rate = Pct(75)
    /\ call.ret = "needs_tuning"

----------------------------------------------------------------------------
(* Suggestions: learning_engine.py, LearningEngine *)

LearningEngine_min_sample_size == 30

\* timedelta(days=d), in half days
Days(d) == 2 * d

\* datetime.now().strftime('%Y%m%d'): the day that an instant lies in
DateOf(t) == t \div 2

\* n / d rounded to the nearest integer, halves to the even one (round())
RoundHalfEven(n, d) ==
    LET q == n \div d
        r == n % d
    IN  IF 2 * r < d THEN q
        ELSE IF 2 * r > d THEN q + 1
        ELSE IF q % 2 = 0 THEN q ELSE q + 1

\* int(n / d): the quotient cut off towards zero
IntOf(n, d) == IF n >= 0 THEN n \div d ELSE -((-n) \div d)

\* The column 'outcome' of a prediction is "true", "false" or "null" (NULL).

\* WHERE p.created_at >= period_start AND p.outcome IS NOT NULL
FinishedSince(period_start) ==
    { p \in predictions : p.created_at >= period_start /\ p.outcome # "null" }

\* row['baseline_success_rate'] or 80.0 (percent)
BaselineOf(success_rate) ==
    IF success_rate = Null \/ success_rate.v = 0 THEN 80 ELSE success_rate.v

\* the RulePerformance of a row of the query; success_rate and delta are
\* held in hundredths of a point (round(x, 2)); the confidence interval and
\* the value of p are left out
RulePerformance(rule_id, success_rate, total, won, lost) ==
    LET baseline == BaselineOf(success_rate)
    IN  [ rule_id               |-> rule_id,
          total_predictions     |-> total,
          won_count             |-> won,
          lost_count            |-> lost,
          success_rate          |-> RoundHalfEven(10000 * won, total),
          baseline_success_rate |-> baseline,
          delta                 |-> RoundHalfEven(10000 * won - 100 * baseline * total, total),
          is_significant        |-> ProportionTestSignificant(won, total, baseline, 100) ]

\* LearningEngine.analyze_rule_performance: golden_rules LEFT JOIN
\* predictions, WHERE, GROUP BY gr.id, HAVING COUNT(p.id) >= min_sample_size
analyze_rule_performance(days) ==
    LET period_start == now - Days(days)
        Of(gr)       == { p \in FinishedSince(period_start) : p.golden_rule_id = gr.id }
        results      == { gr \in golden_rules_table :
                            Cardinality(Of(gr)) >= LearningEngine_min_sample_size }
    IN  { RulePerformance(gr.id, gr.success_rate,
                          Cardinality(Of(gr)),
                          Cardinality({ p \in Of(gr) : p.outcome = "true" }),
                          Cardinality({ p \in Of(gr) : p.outcome = "false" })) :
            gr \in { r \in results : Cardinality(Of(r)) # 0 } }

\* a variant of _calculate_severity to compare against: a delta of exactly
\* -7 is already medium
calculate_severity_inclusive(delta) ==
    IF delta < -1000 THEN "high"
    ELSE IF delta <= -700 THEN "medium"
    ELSE "low"

\* LearningEngine._calculate_severity (delta in hundredths)
calculate_severity(delta) ==
    IF delta < -1000 THEN "high"
    ELSE IF delta < -700 THEN "medium"
    ELSE "low"

\* LearningEngine._generate_recommendation: the advice and the points it
\* names, abs(int(delta)) or abs(int(delta * 0.8))
LearningEngine_generate_recommendation(perf) ==
    IF perf.delta < -1000
    THEN [advice |-> "disable_or_reduce", points |-> Abs(IntOf(perf.delta, 100))]
    ELSE IF perf.delta < -700
    THEN [advice |-> "reduce_or_filter", points |-> Abs(IntOf(perf.delta * 8, 1000))]
    ELSE [advice |-> "monitor", points |-> 0]

\* the Suggestion of a degraded rule; lower_confidence_base_by is the
\* number in the first suggested action, abs(int(perf.delta * 0.8))
RuleSuggestion(perf) ==
    LET severity == calculate_severity(perf.delta)
    IN  [ suggestion_id   |-> << DateOf(now), "R", perf.rule_id >>,
          severity        |-> severity,
          category        |-> "rule_performance",
          data            |-> perf,
          recommendation  |-> LearningEngine_generate_recommendation(perf),
          lower_confidence_base_by |-> Abs(IntOf(perf.delta * 8, 1000)),
          action_required |-> severity = "high" ]

\* LearningEngine._detect_rule_degradation
detect_rule_degradation ==
    { RuleSuggestion(perf) :
        perf \in { q \in analyze_rule_performance(30) : q.is_significant /\ q.delta < -500 } }

\* the finished predictions of the window on matches of a league
\* (matches JOIN predictions ON p.match_id = m.id)
OfLeague(league, period_start) ==
    { p \in FinishedSince(period_start) :
        \E m \in matches_table : m.id = p.match_id /\ m.league = league }

Won(preds) == { p \in preds : p.outcome = "true" }

\* LearningEngine._detect_league_issues: leagues of 20 or more finished
\* predictions in 60 days with a success rate below 70 percent
detect_league_issues ==
    LET period_start == now - Days(60)
        results == { league \in { m.league : m \in matches_table } :
                       Cardinality(OfLeague(league, period_start)) >= 20 }
        total(league) == Cardinality(OfLeague(league, period_start))
        won(league)   == Cardinality(Won(OfLeague(league, period_start)))
        below(league, rate) == 100 * won(league) < rate * total(league)
    IN  { [ suggestion_id   |-> << DateOf(now), "L", league >>,
            severity        |-> IF below(league, 65) THEN "medium" ELSE "low",
            category        |-> "league_reliability",
            data            |-> [ league            |-> league,
                                  total_predictions |-> total(league),
                                  won_count         |-> won(league) ],
            recommendation  |-> [advice |-> "filter_league", points |-> 0],
            action_required |-> below(league, 65) ] :
          league \in { l \in results : below(l, 70) } }

\* the confidence_bucket of the CASE expression
ConfidenceBucket(confidence) ==
    IF confidence >= 95 THEN "95-100"
    ELSE IF confidence >= 90 THEN "90-95"
    ELSE IF confidence >= 85 THEN "85-90"
    ELSE IF confidence >= 80 THEN "80-85"
    ELSE "70-80"

RECURSIVE SumConfidence(_)
SumConfidence(preds) ==
    IF preds = {} THEN 0
    ELSE LET p == CHOOSE q \in preds : TRUE
         IN  p.confidence + SumConfidence(preds \ {p})

\* LearningEngine._detect_confidence_inflation: buckets of 20 or more
\* finished predictions in 30 days whose success rate is more than 5
\* points off the average confidence; inflation = won / total * 100 -
\* avg_confidence is compared as inflation * total
detect_confidence_inflation ==
    LET finished == FinishedSince(now - Days(30))
        Of(bucket) == { p \in finished : ConfidenceBucket(p.confidence) = bucket }
        results == { bucket \in { ConfidenceBucket(p.confidence) : p \in finished } :
                       Cardinality(Of(bucket)) >= 20 }
        total(bucket) == Cardinality(Of(bucket))
        inflation_total(bucket) ==
            100 * Cardinality(Won(Of(bucket))) - SumConfidence(Of(bucket))
    IN  { [ suggestion_id   |-> << DateOf(now), "C", bucket >>,
            severity        |-> IF Abs(inflation_total(bucket)) > 8 * total(bucket)
                                THEN "medium" ELSE "low",
            category        |-> "confidence_calibration",
            data            |-> [ confidence_bucket |-> bucket,
                                  sample_size       |-> total(bucket) ],
            recommendation  |-> [ advice |-> IF inflation_total(bucket) < 0
                                             THEN "reduce" ELSE "increase",
                                  points |-> Abs(IntOf(inflation_total(bucket), total(bucket))) ],
            action_required |-> FALSE ] :
          bucket \in { b \in results : Abs(inflation_total(b)) > 5 * total(b) } }

\* LearningEngine.generate_suggestions
generate_suggestions ==
    detect_rule_degradation \cup detect_league_issues \cup detect_confidence_inflation

\* the suggestions of a list that save_suggestions inserts: those whose
\* suggestion_id is not stored yet
NewSuggestions(suggestions) ==
    { sugg \in suggestions :
        ~\E row \in system_suggestions : row.suggestion_id = sugg.suggestion_id }

\* the row inserted for a suggestion
SuggestionRow(sugg) == [ suggestion_id |-> sugg.suggestion_id,
                         severity      |-> sugg.severity,
                         category      |-> sugg.category,
                         suggestion    |-> sugg,
                         status        |-> "pending" ]

----------------------------------------------------------------------------
(* The learning engine against the store *)

\* LearningEngine.analyze_rule_performance(days)
AnalyzeRulePerformance(days) ==
    /\ call' = [ op   |-> "analyze_rule_performance",
                 args |-> [days |-> days],
                 ret  |-> analyze_rule_performance(days) ]
    /\ UNCHANGED << engineFields, storeVars >>

\* LearningEngine.generate_suggestions()
GenerateSuggestions ==
    /\ call' = [ op   |-> "generate_suggestions",
                 args |-> << >>,
                 ret  |-> generate_suggestions ]
    /\ UNCHANGED << engineFields, storeVars >>

\* a variant of save_suggestions to compare against: it also lowers the
\* stored success rate of the rules whose degradation it records
SaveSuggestionsApplied ==
    /\ call.op = "generate_suggestions"
    /\ system_suggestions' =
           system_suggestions \cup { SuggestionRow(sugg) : sugg \in NewSuggestions(call.ret) }
    /\ golden_rules_table' =
           { IF \E s \in call.ret : s.category = "rule_performance" /\ s.data.rule_id = gr.id
             THEN [gr EXCEPT !.success_rate = Num(BaselineOf(gr.success_rate) - 1)]
             ELSE gr : gr \in golden_rules_table }
    /\ call' = [ op   |-> "save_suggestions",
                 args |-> [suggestions |-> call.ret],
                 ret  |-> Cardinality(NewSuggestions(call.ret)) ]
    /\ UNCHANGED << engineFields, outputVars, auditVars, now, feed, predictions, runs, eng, trk, hist,
                    matches_table, candidate_rules,
                    sandbox_test_runs, sandbox_match_results >>

\* LearningEngine.save_suggestions(suggestions), on the suggestions that
\* generate_suggestions returned (the command line of learning_engine.py)
SaveSuggestions ==
    /\ call.op = "generate_suggestions"
    /\ system_suggestions' =
           system_suggestions \cup { SuggestionRow(sugg) : sugg \in NewSuggestions(call.ret) }
    /\ call' = [ op   |-> "save_suggestions",
                 args |-> [suggestions |-> call.ret],
                 ret  |-> Cardinality(NewSuggestions(call.ret)) ]
    /\ UNCHANGED << engineFields, outputVars, auditVars, now, feed, predictions, runs, eng, trk, hist,
                    golden_rules_table, matches_table, candidate_rules,
                    sandbox_test_runs, sandbox_match_results >>

\* the instant of the analysis: day 100
LearnNow == 200

\* a row of 'matches': league, odds in hundredths (away_odds is NULL on
\* every fifth match) and the final score
StoredMatch(id, match_date) ==
    [ id         |-> id,
      league     |-> IF id % 4 = 0 THEN "L2" ELSE "L1",
      match_date |-> match_date,
      home_odds  |-> Num(150 + 50 * (id % 3)),
      away_odds  |-> IF id % 5 = 0 THEN Null ELSE Num(200 + 100 * (id % 2)),
      home_score |-> Num(id % 3),
      away_score |-> Num(id % 2) ]

\* a row of 'predictions' as the validation layer reads it
StoredPrediction(id, golden_rule_id, created_at, outcome) ==
    [ id             |-> id,
      golden_rule_id |-> golden_rule_id,
      match_id       |-> id,
      created_at     |-> created_at,
      outcome        |-> outcome,
      confidence     |-> 92,
      prediction_type |-> MS_25_UST ]

\* the stored success rates of a rule: none, and percentages
Baselines == { Null, Num(70), Num(95), Num(97), Num(100) }

\* the numbers of finished predictions of the rule in the last 30 days
FinishedCounts ==
    (LearningEngine_min_sample_size - 1) .. (LearningEngine_min_sample_size + 1)

\* the windows analyze_rule_performance is called with
AnalysisDays == { 30, 40 }

\* The predictions of rule 1: `recent` finished ones of 10 days ago, `won`
\* of them won, and lost ones of exactly 30 days, of 40 days and of 70
\* days ago (at the edge of the windows, and outside), and one that is
\* not finished. Rule 2 has two finished predictions.
LearnPredictions(recent, won) ==
    { StoredPrediction(i, 1, LearnNow - Days(10), IF i <= won THEN "true" ELSE "false") :
        i \in 1..recent }
    \cup { StoredPrediction(recent + 1, 1, LearnNow - Days(30), "false"),
           StoredPrediction(recent + 2, 1, LearnNow - Days(40), "false"),
           StoredPrediction(recent + 3, 1, LearnNow - Days(70), "false"),
           StoredPrediction(recent + 4, 1, LearnNow - Days(10), "null"),
           StoredPrediction(recent + 5, 2, LearnNow - Days(10), "true"),
           StoredPrediction(recent + 6, 2, LearnNow - Days(10), "false") }

\* the store that the validation layer finds: rule 1 with one of the
\* success rates, `total` finished predictions of the last 30 days, some
\* of them won, and a match for every prediction
InitValidation(success_rates, totals, won_counts) ==
    /\ min_confidence = DefaultMinConfidence
    /\ tolerance = DefaultTolerance
    /\ golden_rules = Catalog
    /\ call = NoCall
    /\ now = LearnNow
    /\ feed = {}
    /\ runs = << >>
    /\ eng = [e \in Engines |-> EngineInit]
    /\ trk = [pc |-> "idle", pending |-> {}]
    /\ hist = [ faults |-> 0, started |-> 0, next_id |-> 1,
                graded |-> [m \in 1..Len(MatchesTable) |-> "none"] ]
    /\ \E success_rate \in success_rates, total \in totals :
       \E won \in won_counts \cap (0..(total - 1)) :
         /\ golden_rules_table = { [id |-> 1, success_rate |-> success_rate],
                                   [id |-> 2, success_rate |-> Null] }
         /\ predictions = LearnPredictions(total - 1, won)
         /\ matches_table = { StoredMatch(p.id, DateOf(p.created_at)) :
                                p \in LearnPredictions(total - 1, won) }
    /\ system_suggestions = {}
    /\ candidate_rules = << >>
    /\ sandbox_test_runs = << >>
    /\ sandbox_match_results = << >>
    /\ OutputInit
    /\ AuditInit

InitLearn ==
    InitValidation(Baselines, FinishedCounts, 0..LearningEngine_min_sample_size)

NextLearn ==
    \/ \E days \in AnalysisDays : AnalyzeRulePerformance(days)
    \/ GenerateSuggestions
    \/ SaveSuggestions

SpecLearn == InitLearn /\ [][NextLearn]_vars

\* the finished predictions of a rule in the window of the detector, the
\* last 30 days
FinishedInWindow(rule_id) ==
    { p \in predictions :
        /\ p.golden_rule_id = rule_id
        /\ p.outcome # "null"
        /\ p.created_at >= now - Days(30) }

\* the degradation records for a rule among the suggestions
RecordsOf(suggestions, rule_id) ==
    { s \in suggestions : s.category = "rule_performance" /\ s.data.rule_id = rule_id }

\* delta, the observed rate minus the baseline in percentage points, is
\* below the (negative) bound: won / total * 100 - baseline < bound
DeltaBelow(won, total, baseline, bound) ==
    100 * won - baseline * total < bound * total

\* C18: the degradation detector emits an advisory record for a rule iff
\* the rule has at least 30 finished predictions in the window, the
\* proportion test against its baseline is significant and delta < -5; the
\* severity is high when delta < -10, medium when delta < -7, low otherwise.
C18_DegradationRecord ==
    call.op = "generate_suggestions" =>
        \A gr \in golden_rules_table :
            LET total    == Cardinality(FinishedInWindow(gr.id))
                won      == Cardinality(Won(FinishedInWindow(gr.id)))
                baseline == BaselineOf(gr.success_rate)
                records  == RecordsOf(call.ret, gr.id)
            IN  /\ records # {} <=>
                       /\ total >= 30
                       /\ ProportionTestSignificant(won, total, baseline, 100)
                       /\ DeltaBelow(won, total, baseline, -5)
                /\ Cardinality(records) <= 1
                /\ \A s \in records :
                       s.severity = IF DeltaBelow(won, total, baseline, -10) THEN "high"
                                    ELSE IF DeltaBelow(won, total, baseline, -7) THEN "medium"
                                    ELSE "low"

\* C18 witness: a record for a rule whose delta is exactly -7, of severity low
C18_Witness ==
    /\ call.op = "generate_suggestions"
    /\ \E s \in RecordsOf(call.ret, 1) : s.data.delta = -700 /\ s.severity = "low"

\* C19: the confidence-base adjustment suggested in a degradation record
\* is round(|delta| * 0.8) points, delta taken with two decimals: the
\* product rounded to the nearest integer, not cut off.
C19_AdjustmentRounded ==
    call.op = "generate_suggestions" =>
        \A s \in call.ret :
            s.category = "rule_performance" =>
                s.lower_confidence_base_by = RoundHalfEven(Abs(s.data.delta) * 8, 1000)

----------------------------------------------------------------------------
(* Candidate rules and test runs: sandbox_evaluator.py, SandboxEvaluator *)

\* the fields of the dataclass CandidateRule
CandidateRuleFields ==
    { "candidate_id", "rule_name", "rule_description", "rule_logic",
      "rule_type", "prediction_type", "confidence_base", "conditions" }

\* CandidateRule(**row) accepts the row: a keyword that is not a field of
\* the dataclass raises TypeError
Constructible(row) == DOMAIN row \subseteq CandidateRuleFields

\* the row that add_candidate_rule inserts (the name, the description and
\* the logic text of the rule are left out)
CandidateRow(candidate_id, rule_type, prediction_type, confidence_base, conditions) ==
    [ candidate_id    |-> candidate_id,
      rule_type       |-> rule_type,
      prediction_type |-> prediction_type,
      confidence_base |-> confidence_base,
      conditions      |-> conditions,
      created_by      |-> "admin",
      test_status     |-> "draft" ]

\* an odds value lies in the range of a condition
InRange(odds_cond, odds) ==
    /\ odds # Null
    /\ "min" \in DOMAIN odds_cond => odds.v >= odds_cond.min
    /\ "max" \in DOMAIN odds_cond => odds.v <= odds_cond.max

\* SandboxEvaluator._check_conditions
check_conditions(conditions, match) ==
    IF DOMAIN conditions = {}
    THEN FALSE
    ELSE /\ "home_odds" \in DOMAIN conditions => InRange(conditions.home_odds, match.home_odds)
         /\ "away_odds" \in DOMAIN conditions => InRange(conditions.away_odds, match.away_odds)
         /\ "leagues" \in DOMAIN conditions => match.league \in conditions.leagues

\* SandboxEvaluator._evaluate_prediction_outcome
evaluate_prediction_outcome(prediction_type, home_score, away_score) ==
    LET total_goals == home_score + away_score
    IN  IF prediction_type = MS_25_UST
        THEN IF 10 * total_goals > 25 THEN "won" ELSE "lost"
        ELSE IF prediction_type = MS_25_ALT
        THEN IF 10 * total_goals < 25 THEN "won" ELSE "lost"
        ELSE IF prediction_type = IY_05_UST
        THEN "unknown"
        ELSE IF prediction_type = KG_VAR
        THEN IF home_score > 0 /\ away_score > 0 THEN "won" ELSE "lost"
        ELSE "unknown"

\* SandboxEvaluator._evaluate_candidate_on_match
evaluate_candidate_on_match(candidate, match) ==
    IF candidate.rule_type = "json_conditions"
    THEN IF ~check_conditions(candidate.conditions, match)
         THEN NoPrediction
         ELSE Predicted(evaluate_prediction_outcome(candidate.prediction_type,
                                                    match.home_score.v, match.away_score.v))
    ELSE NoPrediction

\* SandboxEvaluator._evaluate_golden_rules_on_match; a golden_rule_id of 0
\* stands for None
evaluate_golden_rules_on_match(match) ==
    IF match.golden_rule_id # 0 /\ match.actual_outcome # "null"
    THEN Predicted(IF match.actual_outcome = "true" THEN "won" ELSE "lost")
    ELSE NoPrediction

\* SandboxEvaluator._evaluate_specific_rule_on_match
evaluate_specific_rule_on_match(rule_id, match) ==
    IF match.golden_rule_id = rule_id
    THEN Predicted(IF match.actual_outcome = "true" THEN "won" ELSE "lost")
    ELSE NoPrediction

\* a row of the query of _fetch_historical_matches: a match, and the
\* columns of a prediction on it (of no prediction: NULL)
JoinRow(m, prediction_id, actual_outcome, prediction_type, golden_rule_id) ==
    [ match_id       |-> m.id,
      league         |-> m.league,
      match_date     |-> m.match_date,
      home_odds      |-> m.home_odds,
      away_odds      |-> m.away_odds,
      home_score     |-> m.home_score,
      away_score     |-> m.away_score,
      prediction_id  |-> prediction_id,
      actual_outcome |-> actual_outcome,
      prediction_type |-> prediction_type,
      golden_rule_id |-> golden_rule_id ]

\* ORDER BY m.match_date DESC; rows of one date in the order of their ids
RowBefore(a, b) ==
    \/ a.match_date > b.match_date
    \/ a.match_date = b.match_date /\ a.match_id < b.match_id
    \/ a.match_date = b.match_date /\ a.match_id = b.match_id
       /\ a.prediction_id <= b.prediction_id

RECURSIVE OrderRows(_)
OrderRows(rows) ==
    IF rows = {} THEN << >>
    ELSE LET first == CHOOSE r \in rows : \A q \in rows : RowBefore(r, q)
         IN  << first >> \o OrderRows(rows \ {first})

\* SandboxEvaluator._fetch_historical_matches: matches LEFT JOIN predictions
\* of the finished matches of the period
fetch_historical_matches(start_date, end_date) ==
    LET finished == { m \in matches_table :
                        /\ m.match_date >= start_date
                        /\ m.match_date <= end_date
                        /\ m.home_score # Null
                        /\ m.away_score # Null }
        On(m)    == { p \in predictions : p.match_id = m.id }
        joined   == UNION { { JoinRow(m, p.id, p.outcome, p.prediction_type, p.golden_rule_id) :
                                p \in On(m) } : m \in finished }
        alone    == { JoinRow(m, 0, "null", << >>, 0) : m \in { x \in finished : On(x) = {} } }
    IN  OrderRows(joined \cup alone)

\* the row that _store_match_result inserts
MatchResultRow(test_run_id, match, candidate, candidate_pred, baseline_pred) ==
    [ test_run_id          |-> test_run_id,
      match_id             |-> match.match_id,
      match_date           |-> match.match_date,
      candidate_predicted  |-> candidate_pred.predicted,
      candidate_prediction |-> IF candidate_pred.predicted
                               THEN candidate.prediction_type ELSE << >>,
      candidate_result     |-> candidate_pred.result,
      baseline_predicted   |-> baseline_pred.predicted,
      baseline_prediction  |-> IF baseline_pred.predicted
                               THEN match.prediction_type ELSE << >>,
      baseline_result      |-> baseline_pred.result ]

\* round(x, 2) of a percentage, in hundredths
Round2(x) == RoundHalfEven(100 * x.n, x.d)

\* the row that _store_test_run inserts for a TestResult: the period is
\* the last 60 days and the baseline type 'golden_rules', whatever the
\* test was called with
TestRunRow(test_run_id, candidate_id, result) ==
    [ test_run_id                 |-> test_run_id,
      candidate_id                |-> candidate_id,
      test_period_start           |-> DateOf(now) - 60,
      test_period_end             |-> DateOf(now) - 1,
      baseline_type               |-> "golden_rules",
      total_matches_tested        |-> result.total_matches,
      candidate_predictions_count |-> result.candidate_predictions,
      baseline_predictions_count  |-> result.baseline_predictions,
      candidate_win_count         |-> result.candidate_wins,
      candidate_loss_count        |-> result.candidate_losses,
      candidate_win_rate          |-> Round2(result.candidate_win_rate),
      baseline_win_count          |-> result.baseline_wins,
      baseline_loss_count         |-> result.baseline_losses,
      baseline_win_rate           |-> Round2(result.baseline_win_rate),
      win_rate_delta              |-> Round2(result.win_rate_delta),
      is_significant              |-> result.is_significant,
      recommendation              |-> result.recommendation,
      status                      |-> "completed" ]

\* SandboxEvaluator._insufficient_data_result
insufficient_data_result(match_count) ==
    [ total_matches         |-> match_count,
      candidate_predictions |-> 0,
      candidate_wins        |-> 0,
      candidate_losses      |-> 0,
      candidate_win_rate    |-> Pct(0),
      baseline_predictions  |-> 0,
      baseline_wins         |-> 0,
      baseline_losses       |-> 0,
      baseline_win_rate     |-> Pct(0),
      win_rate_delta        |-> Pct(0),
      is_significant        |-> FALSE,
      recommendation        |-> "insufficient_data" ]

\* table('candidate_rules').update(fields).eq('candidate_id', candidate_id)
UpdateCandidate(rows, candidate_id, fields) ==
    [ i \in DOMAIN rows |->
        IF rows[i].candidate_id = candidate_id
        THEN fields @@ rows[i]
        ELSE rows[i] ]

\* the baseline's prediction on a match, by baseline_type
BaselinePrediction(baseline_type, baseline_rule_id, match) ==
    IF baseline_type = "golden_rules" THEN evaluate_golden_rules_on_match(match)
    ELSE IF baseline_type = "specific_rule"
    THEN evaluate_specific_rule_on_match(baseline_rule_id, match)
    ELSE NoPrediction

\* SandboxEvaluator.test_candidate_rule: the tables after the call and
\* what it returns. The stored row has the columns created_by and
\* test_status, which CandidateRule(**row) does not accept.
test_candidate_rule(candidate_id, test_period_days, baseline_type, baseline_rule_id) ==
    LET found   == { i \in DOMAIN candidate_rules :
                       candidate_rules[i].candidate_id = candidate_id }
        same    == [ candidate_rules       |-> candidate_rules,
                     sandbox_test_runs     |-> sandbox_test_runs,
                     sandbox_match_results |-> sandbox_match_results,
                     ret                   |-> Raise ]
    IN  IF found = {} THEN same
        ELSE
        LET candidate   == candidate_rules[CHOOSE i \in found : \A j \in found : i <= j]
            test_run_id == << "TEST", now >>
            test_period_end   == DateOf(now) - 1
            test_period_start == test_period_end - test_period_days
            testing == UpdateCandidate(candidate_rules, candidate_id,
                                       [test_status |-> "testing", last_tested_at |-> now])
            rows == fetch_historical_matches(test_period_start, test_period_end)
            candidate_results ==
                [ i \in DOMAIN rows |-> evaluate_candidate_on_match(candidate, rows[i]) ]
            baseline_results ==
                [ i \in DOMAIN rows |->
                    BaselinePrediction(baseline_type, baseline_rule_id, rows[i]) ]
            result == calculate_test_metrics(candidate_results, baseline_results)
        IN  IF ~Constructible(candidate) THEN same
            ELSE IF Len(rows) < SandboxEvaluator_min_sample_size
            THEN [ same EXCEPT !.candidate_rules = testing,
                               !.ret = Return(insufficient_data_result(Len(rows))) ]
            ELSE [ candidate_rules |->
                       UpdateCandidate(testing, candidate_id,
                           [ test_status              |-> "tested",
                             last_tested_at           |-> now,
                             test_sample_size         |-> Len(rows),
                             test_win_rate            |-> Round2(result.candidate_win_rate),
                             test_confidence_accuracy |-> Round2(result.candidate_win_rate) ]),
                   sandbox_test_runs |->
                       Append(sandbox_test_runs, TestRunRow(test_run_id, candidate_id, result)),
                   sandbox_match_results |->
                       sandbox_match_results \o
                       [ i \in DOMAIN rows |->
                           MatchResultRow(test_run_id, rows[i], candidate,
                                          candidate_results[i], baseline_results[i]) ],
                   ret |-> Return(result) ]

----------------------------------------------------------------------------
(* The validation layer against the store *)

\* the number of rows of 'candidate_rules' and of 'sandbox_test_runs'
MaxCandidates == 2

MaxTestRuns == 1

\* the conditions of a candidate: none, a range of the away odds, a floor
\* of the home odds in one league
NoConditions == << >>

AwayOddsRange == [away_odds |-> [min |-> 250, max |-> 500]]

HomeOddsInLeague == [home_odds |-> [min |-> 200], leagues |-> {"L1"}]

\* the candidates that add_candidate_rule is called with
CandidateDefs ==
    { CandidateRow("CAND-1", "json_conditions", MS_25_UST, 82, AwayOddsRange),
      CandidateRow("CAND-1", "json_conditions", KG_VAR, 80, HomeOddsInLeague),
      CandidateRow("CAND-2", "json_conditions", IY_05_UST, 85, NoConditions),
      CandidateRow("CAND-2", "python_function", MS_25_ALT, 78, AwayOddsRange) }

CandidateIds == { "CAND-1", "CAND-2", "CAND-3" }

TestPeriods == { 60, 5 }

BaselineTypes == { "golden_rules", "specific_rule", "no_rules" }

\* SandboxEvaluator.add_candidate_rule; the insert returns the row, or no
\* data (and the method raises)
AddCandidateRule(row, inserted) ==
    /\ Len(candidate_rules) < MaxCandidates
    /\ candidate_rules' = IF inserted THEN Append(candidate_rules, row) ELSE candidate_rules
    /\ call' = [ op   |-> "add_candidate_rule",
                 args |-> row,
                 ret  |-> IF inserted THEN Return(row.candidate_id) ELSE Raise ]
    /\ UNCHANGED << engineFields, outputVars, auditVars, now, feed, predictions, runs, eng, trk, hist,
                    golden_rules_table, matches_table, system_suggestions,
                    sandbox_test_runs, sandbox_match_results >>

\* SandboxEvaluator.test_candidate_rule
TestCandidateRule(candidate_id, test_period_days, baseline_type, baseline_rule_id) ==
    /\ Len(sandbox_test_runs) < MaxTestRuns
    /\ LET after == test_candidate_rule(candidate_id, test_period_days,
                                        baseline_type, baseline_rule_id)
       IN  /\ candidate_rules' = after.candidate_rules
           /\ sandbox_test_runs' = after.sandbox_test_runs
           /\ sandbox_match_results' = after.sandbox_match_results
           /\ call' = [ op   |-> "test_candidate_rule",
                        args |-> [ candidate_id     |-> candidate_id,
                                   test_period_days |-> test_period_days,
                                   baseline_type    |-> baseline_type,
                                   baseline_rule_id |-> baseline_rule_id ],
                        ret  |-> after.ret ]
    /\ UNCHANGED << engineFields, outputVars, auditVars, now, feed, predictions, runs, eng, trk, hist,
                    golden_rules_table, matches_table, system_suggestions >>

InitAdvisory == InitValidation({Null}, {LearningEngine_min_sample_size}, {2, 27})

NextAdvisory ==
    \/ \E days \in AnalysisDays : AnalyzeRulePerformance(days)
    \/ GenerateSuggestions
    \/ SaveSuggestions
    \/ \E row \in CandidateDefs, inserted \in BOOLEAN : AddCandidateRule(row, inserted)
    \/ \E candidate_id \in CandidateIds, test_period_days \in TestPeriods,
          baseline_type \in BaselineTypes, baseline_rule_id \in {0, 1} :
         TestCandidateRule(candidate_id, test_period_days, baseline_type, baseline_rule_id)

SpecAdvisory == InitAdvisory /\ [][NextAdvisory]_vars

\* C20: validation is advisory-only: no operation of the learning engine
\* or of the sandbox changes the golden rule catalog, the stored matches
\* or the predictions (nor the runs); they write only suggestions,
\* candidate rules and sandbox results.
C20_AdvisoryOnly ==
    [][ /\ golden_rules_table' = golden_rules_table
        /\ golden_rules' = golden_rules
        /\ matches_table' = matches_table
        /\ predictions' = predictions
        /\ runs' = runs ]_vars

\* C20 witness: suggestions are saved and a candidate rule is stored
C20_Witness ==
    /\ system_suggestions # {}
    /\ Len(candidate_rules) > 0
    /\ call.op = "test_candidate_rule"

----------------------------------------------------------------------------
(* Statistical utilities on degenerate samples: learning_engine.py, sandbox_evaluator.py *)

\* the largest sample that the utilities are called with
MaxSample == 4

\* stats.norm.ppf(0.975) squared, in thousandths: z * z = 3.841
ZSquared == 3841

\* the whole part of the square root of x, looked for between lo and hi
RECURSIVE SqrtBetween(_, _, _)
SqrtBetween(x, lo, hi) ==
    IF lo >= hi THEN lo
    ELSE LET mid == (lo + hi + 1) \div 2
         IN  IF mid * mid <= x THEN SqrtBetween(x, mid, hi)
             ELSE SqrtBetween(x, lo, mid - 1)

ISqrt(x) == SqrtBetween(x, 0, 46340)

\* LearningEngine._wilson_confidence_interval at confidence 0.95: the two
\* bounds, in whole percent (cut off; z * z is held to thousandths, so a
\* bound within 0.01 of a whole percent can come out one off, which no
\* sample of up to MaxSample + 1 does). With p = successes / total:
\*   center = (p + z*z / (2 * total)) / (1 + z*z / total)
\*   margin = z * sqrt((p * (1 - p) + z*z / (4 * total)) / total) / (1 + z*z / total)
\* both are brought to the denominator 2000 * total + 2 * ZSquared, where
\* the margin is the square root of
\*   4000 * ZSquared * successes * (total - successes) / total + ZSquared * ZSquared
wilson_confidence_interval(successes, total) ==
    IF total = 0
    THEN Return(<< 0, 0 >>)
    ELSE LET root   == ISqrt(((4000 * ZSquared) \div total) * successes * (total - successes)
                             + ZSquared * ZSquared)
             den    == 2000 * total + 2 * ZSquared
             center == 2000 * successes + ZSquared
             lower  == (100 * (center - root)) \div den
             upper  == (100 * (center + root)) \div den
         IN  Return(<< IF lower < 0 THEN 0 ELSE lower,
                       IF upper > 100 THEN 100 ELSE upper >>)

\* the expected proportions of a test: none, a half, seven tenths, all
ExpectedProportions == { << 0, 1 >>, << 1, 2 >>, << 7, 10 >>, << 1, 1 >>, << 0, 100 >>, << 100, 100 >> }

CallProportionTest ==
    /\ call = NoCall
    /\ \E total \in 0..MaxSample, expected \in ExpectedProportions :
       \E successes \in 0..total :
         call' = [ op   |-> "_proportion_test",
                   args |-> [ successes    |-> successes,
                              total        |-> total,
                              expected_num |-> expected[1],
                              expected_den |-> expected[2] ],
                   ret  |-> proportion_test(successes, total, expected[1], expected[2]) ]
    /\ UNCHANGED << engineFields, storeVars >>

CallWilsonConfidenceInterval ==
    /\ call = NoCall
    /\ \E total \in 0..MaxSample :
       \E successes \in 0..total :
         call' = [ op   |-> "_wilson_confidence_interval",
                   args |-> [ successes |-> successes, total |-> total ],
                   ret  |-> wilson_confidence_interval(successes, total) ]
    /\ UNCHANGED << engineFields, storeVars >>

NextStats ==
    \/ CallProportionTest
    \/ CallWilsonConfidenceInterval
    \/ CallCalculateTestMetrics

SpecStats == InitSandbox /\ [][NextStats]_vars

\* an expected proportion of 0 or 1: the standard error is 0
NoSpread(num, den) == num = 0 \/ num = den

\* C23: the statistical functions never raise on degenerate samples and
\* return the neutral result: the proportion test returns 1.0 when total
\* is 0 or the expected proportion is 0 or 1, the Wilson interval is (0, 0)
\* when total is 0, and a comparison on such inputs is not significant.
C23_NeutralOnDegenerate ==
    /\ call.op = "_proportion_test" =>
         /\ ~call.ret.exc
         /\ ( ( call.args.total = 0
                \/ NoSpread(call.args.expected_num, call.args.expected_den) ) =>
                   /\ call.ret.val = PValueOne
                   /\ ~BelowFiveHundredths(call.ret.val) )
    /\ call.op = "_wilson_confidence_interval" =>
         /\ ~call.ret.exc
         /\ (call.args.total = 0 => call.ret.val = << 0, 0 >>)
    /\ call.op = "_calculate_test_metrics" =>
         ( ( \/ call.ret.candidate_predictions = 0
             \/ call.ret.baseline_predictions = 0
             \/ call.ret.baseline_wins = 0
             \/ call.ret.baseline_wins = call.ret.baseline_predictions ) =>
                  ~call.ret.is_significant )

\* C23 witness: a proportion test on an empty sample answered 1.0
C23_Witness ==
    /\ call.op = "_proportion_test"
    /\ call.args.total = 0
    /\ call.ret = Return(PValueOne)

----------------------------------------------------------------------------
(* Intelligence outputs: intelligence_output_manager.py, IntelligenceOutputManager *)

\* the number of rows of 'intelligence_outputs'
MaxOutputs == 1

\* OutputStatus
OutputStatuses == { "new", "reviewed", "approved", "rejected", "archived", "executed" }

\* BlockReason, as far as emit_output gives it
BlockReasons == { "missing_ui_mapping", "persistence_failed" }

\* valid_transitions of _is_valid_transition
valid_transitions(current) ==
    CASE current = "new"      -> { "reviewed" }
      [] current = "reviewed" -> { "approved", "rejected", "archived" }
      [] current = "approved" -> { "executed", "archived" }
      [] current = "rejected" -> { "archived" }
      [] current = "archived" -> { }
      [] current = "executed" -> { "archived" }
      [] OTHER                -> { }

\* IntelligenceOutputManager._is_valid_transition; current is "none" for
\* None
is_valid_transition(current, new) == new \in valid_transitions(current)

\* IntelligenceOutputManager._get_current_status: the status of the row,
\* "none" (None) when there is no such row
get_current_status(output_id) ==
    IF output_id \in DOMAIN intelligence_outputs
    THEN intelligence_outputs[output_id].status
    ELSE "none"

\* IntelligenceOutputManager.emit_output: a valid output is persisted
\* with status NEW and its output_id returned; an output that fails the
\* validation or the insert is blocked, the block logged, None returned.
\* An output_id is the row's place in the table.
EmitOutput(valid, persisted) ==
    /\ Len(intelligence_outputs) < MaxOutputs
    /\ IF valid /\ persisted
       THEN /\ intelligence_outputs' =
                   Append(intelligence_outputs, [status |-> "new"])
            /\ UNCHANGED system_blocked_events
       ELSE /\ system_blocked_events' = system_blocked_events \cup
                   { IF valid THEN "persistence_failed" ELSE "missing_ui_mapping" }
            /\ UNCHANGED intelligence_outputs
    /\ call' = [ op   |-> "emit_output",
                 args |-> [valid |-> valid, persisted |-> persisted],
                 ret  |-> IF valid /\ persisted
                          THEN Num(Len(intelligence_outputs) + 1) ELSE Null ]
    /\ UNCHANGED << engineFields, validationVars, auditVars, adm,
                    now, feed, predictions, runs, eng, trk, hist >>

\* what a finished update_output_status has done: the status it read,
\* what it returned and whether it wrote
Finished(a, output_id, new_status, current_status, ret, wrote) ==
    [ op   |-> "update_output_status",
      args |-> [ admin |-> a, output_id |-> output_id, new_status |-> new_status ],
      ret  |-> [ current_status |-> current_status, ret |-> ret, wrote |-> wrote ] ]

\* update_output_status up to the check of the transition: the select
\* of the current status and _is_valid_transition. An exception (failed)
\* and a transition that is not valid return False.
UpdateOutputStatusCheck(a, output_id, new_status, failed) ==
    /\ adm[a].pc = "idle"
    /\ LET current_status == get_current_status(output_id)
       IN  IF failed
           THEN /\ call' = Finished(a, output_id, new_status, "none", FALSE, FALSE)
                /\ UNCHANGED adm
           ELSE IF ~is_valid_transition(current_status, new_status)
           THEN /\ call' = Finished(a, output_id, new_status, current_status, FALSE, FALSE)
                /\ UNCHANGED adm
           ELSE /\ adm' = [adm EXCEPT ![a] =
                             [ pc             |-> "checked",
                               output_id      |-> output_id,
                               new_status     |-> new_status,
                               current_status |-> current_status,
                               ret            |-> "none",
                               wrote          |-> FALSE ]]
                /\ UNCHANGED call
    /\ UNCHANGED << engineFields, validationVars, auditVars, intelligence_outputs,
                    system_blocked_events,
                    now, feed, predictions, runs, eng, trk, hist >>

\* a variant of the update to compare against: the row is written only
\* where its status is still the one that was checked
WriteStatusIfUnchanged(rows, output_id, new_status, current_status) ==
    [ i \in DOMAIN rows |->
        IF i = output_id /\ rows[i].status = current_status
        THEN [rows[i] EXCEPT !.status = new_status]
        ELSE rows[i] ]

\* table('intelligence_outputs').update({status: new_status}).eq('output_id', output_id)
WriteStatus(rows, output_id, new_status, current_status) ==
    [ i \in DOMAIN rows |->
        IF i = output_id
        THEN [rows[i] EXCEPT !.status = new_status]
        ELSE rows[i] ]

\* update_output_status from the update on: the row is written and True
\* returned; an exception (failed) returns False
UpdateOutputStatusWrite(a, failed) ==
    /\ adm[a].pc = "checked"
    /\ intelligence_outputs' =
           IF failed THEN intelligence_outputs
           ELSE WriteStatus(intelligence_outputs, adm[a].output_id,
                            adm[a].new_status, adm[a].current_status)
    /\ call' = Finished(a, adm[a].output_id, adm[a].new_status,
                        adm[a].current_status, ~failed, ~failed)
    /\ adm' = [adm EXCEPT ![a] = AdminIdle]
    /\ UNCHANGED << engineFields, validationVars, auditVars, system_blocked_events,
                    now, feed, predictions, runs, eng, trk, hist >>

InitOutputs == InitSandbox

NextOutputs ==
    \/ \E valid \in BOOLEAN, persisted \in BOOLEAN : EmitOutput(valid, persisted)
    \/ \E a \in Admins, output_id \in 1..(MaxOutputs + 1),
          new_status \in OutputStatuses, failed \in BOOLEAN :
         UpdateOutputStatusCheck(a, output_id, new_status, failed)
    \/ \E a \in Admins, failed \in BOOLEAN : UpdateOutputStatusWrite(a, failed)

SpecOutputs == InitOutputs /\ [][NextOutputs]_vars

\* the lifecycle as documented: NEW -> REVIEWED, REVIEWED -> APPROVED |
\* REJECTED | ARCHIVED, APPROVED -> EXECUTED
DocumentedTransition(current, new) ==
    \/ current = "new" /\ new = "reviewed"
    \/ current = "reviewed" /\ new \in { "approved", "rejected", "archived" }
    \/ current = "approved" /\ new = "executed"

\* C24: update_output_status applies only the documented status changes
\* NEW -> REVIEWED, REVIEWED -> APPROVED | REJECTED | ARCHIVED and
\* APPROVED -> EXECUTED; any other requested transition, also one for an
\* unknown output, returns False and leaves the stored status unchanged.
C24_DocumentedLifecycle ==
    call.op = "update_output_status" =>
        /\ call.ret.wrote => call.ret.ret
        /\ call.ret.ret =>
               DocumentedTransition(call.ret.current_status, call.args.new_status)

----------------------------------------------------------------------------
(* Pre-flight check: audit_logger.py, AuditLogger; AUDIT_INTEGRATION_EXAMPLE.py *)

\* the number of pre-flight checks made in all
MaxHealthChecks == 2

\* the row that _log_critical_error inserts; no run has been started
CriticalError(error_type) ==
    [ run_id |-> Null, error_type |-> "critical_system_error",
      error_message |-> error_type, severity |-> "critical",
      execution_halted |-> TRUE, occurred_at |-> now ]

\* the 'except' branch of pre_flight_check: the error is logged, if the
\* insert of the error goes through, and False returned
PreFlightFailed(error_logged) ==
    [ system_health_log    |-> system_health_log,
      execution_errors_log |->
          IF error_logged
          THEN Append(execution_errors_log, CriticalError("system_health_check_failed"))
          ELSE execution_errors_log,
      ret |-> FALSE ]

\* AuditLogger.pre_flight_check: the tables after the call and what it
\* returns. reachable: the selects go through; logged: the insert of the
\* health log goes through. checks["source_data_valid"] is set to False
\* and never changed.
pre_flight_check(reachable, logged, error_logged) ==
    LET database_connected  == reachable
        golden_rules_loaded == golden_rules_table # {}
        logging_enabled     == TRUE
        source_data_valid   == FALSE
        all_passed == /\ database_connected
                      /\ golden_rules_loaded
                      /\ logging_enabled
                      /\ source_data_valid
        health_log ==
            [ database_connected  |-> database_connected,
              golden_rules_loaded |-> golden_rules_loaded,
              golden_rules_count  |-> IF golden_rules_loaded THEN 1 ELSE 0,
              source_data_valid   |-> FALSE,
              logging_enabled     |-> logging_enabled,
              all_checks_passed   |-> all_passed,
              execution_allowed   |-> all_passed,
              checked_at          |-> now ]
    IN  IF ~reachable \/ ~logged
        THEN PreFlightFailed(error_logged)
        ELSE [ system_health_log    |-> Append(system_health_log, health_log),
               execution_errors_log |-> execution_errors_log,
               ret                  |-> all_passed ]

\* a call of AuditLogger.pre_flight_check
PreFlightCheck(reachable, logged, error_logged) ==
    /\ Len(system_health_log) + Len(execution_errors_log) < MaxHealthChecks
    /\ LET after == pre_flight_check(reachable, logged, error_logged)
       IN  /\ system_health_log' = after.system_health_log
           /\ execution_errors_log' = after.execution_errors_log
           /\ call' = [ op   |-> "pre_flight_check",
                        args |-> [reachable |-> reachable, logged |-> logged],
                        ret  |-> after.ret ]
    /\ UNCHANGED << engineFields, validationVars, outputVars,
                    now, feed, predictions, runs, eng, trk, hist >>

\* run_engine_with_audit up to its first step: the run goes on to
\* start_run when the pre-flight check returns True and leaves by
\* sys.exit(1) when it does not
RunEngineWithAudit(reachable, logged, error_logged) ==
    /\ Len(system_health_log) + Len(execution_errors_log) < MaxHealthChecks
    /\ LET after == pre_flight_check(reachable, logged, error_logged)
       IN  /\ system_health_log' = after.system_health_log
           /\ execution_errors_log' = after.execution_errors_log
           /\ call' = [ op   |-> "run_engine_with_audit",
                        args |-> [reachable |-> reachable, logged |-> logged],
                        ret  |-> IF after.ret THEN "start_run" ELSE "exit" ]
    /\ UNCHANGED << engineFields, validationVars, outputVars,
                    now, feed, predictions, runs, eng, trk, hist >>

\* the store of an audited run: the table 'golden_rules' is empty or
\* holds a rule
InitAudit ==
    /\ min_confidence = DefaultMinConfidence
    /\ tolerance = DefaultTolerance
    /\ golden_rules = Catalog
    /\ call = NoCall
    /\ now = 2
    /\ feed = {}
    /\ predictions = {}
    /\ runs = << >>
    /\ eng = [e \in Engines |-> EngineInit]
    /\ trk = [pc |-> "idle", pending |-> {}]
    /\ hist = [ faults |-> 0, started |-> 0, next_id |-> 1,
                graded |-> [m \in 1..Len(MatchesTable) |-> "none"] ]
    /\ golden_rules_table \in { {}, { [id |-> 1, success_rate |-> Null] } }
    /\ matches_table = {}
    /\ system_suggestions = {}
    /\ candidate_rules = << >>
    /\ sandbox_test_runs = << >>
    /\ sandbox_match_results = << >>
    /\ OutputInit
    /\ AuditInit

NextAudit ==
    \/ \E reachable \in BOOLEAN, logged \in BOOLEAN, error_logged \in BOOLEAN :
         PreFlightCheck(reachable, logged, error_logged)
    \/ \E reachable \in BOOLEAN, logged \in BOOLEAN, error_logged \in BOOLEAN :
         RunEngineWithAudit(reachable, logged, error_logged)
    \/ Tick

SpecAudit == InitAudit /\ [][NextAudit]_vars

\* every readiness check of the pre-flight passes: the database answers,
\* the table 'golden_rules' holds a rule, the health log is written
ReadyToProceed(args) ==
    /\ args.reachable
    /\ args.logged
    /\ golden_rules_table # {}

\* C25: pre_flight_check returns True whenever every readiness check it
\* performs passes (database reachable, at least one golden rule, logging
\* enabled) and False otherwise, so that an audited run gets past the
\* pre-flight step.
C25_PreFlightPasses ==
    /\ call.op = "pre_flight_check" => (call.ret <=> ReadyToProceed(call.args))
    /\ call.op = "run_engine_with_audit" =>
           (call.ret = "start_run" <=> ReadyToProceed(call.args))

----------------------------------------------------------------------------
(* Properties of the run records *)

\* a run record that has reached its final status
Closed(id) == runs[id] \in { "completed", "failed" }

\* C26: complete_run only updates the run record that the current run()
\* created: a run record that has reached status completed or failed is
\* never changed by a later run() on the same engine instance, also not
\* by one whose create_run fails before a new run id is assigned.
C26_ClosedRunUntouched ==
    [][ \A id \in DOMAIN runs : Closed(id) => runs'[id] = runs[id] ]_vars

----------------------------------------------------------------------------
(* The tracker under repeated passes *)

\* the engine as a run() over day 1 that stored every opportunity leaves it
EngineAfterRun(run_id, opps) ==
    [ EngineInit EXCEPT
        !.current_run_id = run_id,
        !.date_from      = 1,
        !.date_to        = 1,
        !.n_matches      = Len(LoadedMatches(1, 1)),
        !.opportunities  = opps,
        !.next           = Len(opps),
        !.inserted_count = Len(opps),
        !.result         = "success",
        !.handle         = TRUE,
        !.calls          = {"archive", "load", "save"} ]

\* the store after two runs over day 1 that overlapped, each archiving
\* before the other saved: the predictions of day 1 are stored twice, all
\* pending, and no fixture is finished yet. It is a state of Spec
InitTrack ==
    /\ min_confidence = DefaultMinConfidence
    /\ tolerance = DefaultTolerance
    /\ golden_rules = Catalog
    /\ call = NoCall
    /\ ValidationInit
    /\ OutputInit
    /\ AuditInit
    /\ now = 2
    /\ feed = {}
    /\ runs = << "completed", "completed" >>
    /\ trk = [pc |-> "idle", pending |-> {}]
    /\ LET opps == process_matches(LoadedMatches(1, 1)).val
       IN  /\ predictions =
                  { PredictionRow(opps[k], (run_id - 1) * Len(opps) + k, run_id) :
                      k \in 1..Len(opps), run_id \in 1..2 }
           /\ eng = [e \in Engines |->
                       EngineAfterRun(IF e = "e1" THEN 1 ELSE 2, opps)]
           /\ hist = [ faults  |-> 0,
                       started |-> 2,
                       next_id |-> 2 * Len(opps) + 1,
                       graded  |-> [m \in 1..Len(MatchesTable) |-> "none"] ]

\* the passes of the tracker, time and the feed; the engine does not run
\* again
NextTrack ==
    \/ \E ok \in Outcomes : TrackFetch(ok)
    \/ \E ok \in Outcomes : TrackStep(ok)
    \/ Tick
    \/ \E m \in 1..Len(MatchesTable) : FeedFinish(m)

\* the scheduler calls track_results again and again, and a pass that has
\* started goes through its loop: the fetch and the turn of the loop are
\* taken whenever they stay enabled. Nothing obliges a storage call to
\* fail, time to pass or the feed to resolve a fixture
SpecTrack ==
    /\ InitTrack
    /\ [][NextTrack]_vars
    /\ WF_vars(\E ok \in Outcomes : TrackFetch(ok))
    /\ WF_vars(\E ok \in Outcomes : TrackStep(ok))

\* the ids save_predictions can give out
PredictionIds == 1..(MaxRuns * Len(MatchesTable))

\* the fixture is finished in the feed, full-time and half-time score known
ScoresKnown(match_data) ==
    /\ match_data.present
    /\ \A x \in { match_data.fulltime_home, match_data.fulltime_away,
                  match_data.halftime_home, match_data.halftime_away } : x.t = "num"

\* the row id is pending, its text is of the catalog, and its fixture is
\* resolved and finished in the feed with both scores known
GradablePending(id) ==
    \E p \in predictions :
        /\ p.id = id
        /\ p.result = "pending"
        /\ p.prediction \in CatalogTexts
        /\ ScoresKnown(get_match_by_teams_and_date(p.match_id))

\* the row id is pending
StillPending(id) == \E p \in predictions : p.id = id /\ p.result = "pending"

\* C27: under repeated tracker passes every pending prediction of the
\* catalog whose fixture is finished in the feed with full-time and
\* half-time scores known stops being pending (is graded won or lost),
\* whatever other pending predictions there are
C27_GradableEventuallyGraded ==
    \A id \in PredictionIds : GradablePending(id) ~> ~StillPending(id)

----------------------------------------------------------------------------
(* Concurrent status updates of one output *)

\* C28: also when update_output_status calls on the same output overlap,
\* every change of a stored status is a transition that
\* _is_valid_transition accepts from the status stored right before the
\* write; two admins acting on a REVIEWED output never produce a stored
\* change such as APPROVED -> REJECTED or REJECTED -> APPROVED
C28_StoredChangesValid ==
    [][ \A output_id \in DOMAIN intelligence_outputs :
          intelligence_outputs'[output_id].status # intelligence_outputs[output_id].status
            => is_valid_transition(intelligence_outputs[output_id].status,
                                   intelligence_outputs'[output_id].status) ]_vars

=============================================================================
